---- MODULE Spec2Model ----
(***************************************************************************)
(* Model of claude-command-center's two algorithmic cores:                 *)
(*   - scripts/backfill-autonomy-streaks.py : compute_streaks, the batch   *)
(*     job that segments tool_events into autonomy streaks and replaces    *)
(*     the autonomy_streaks table;                                         *)
(*   - scripts/ccc-api-server.py : DataStreamer, the change-detecting SSE  *)
(*     broadcaster (here: its digest map and _data_changed).               *)
(*                                                                         *)
(* Timestamps are unix seconds, modelled as naturals.  avg_gap_seconds is  *)
(* a decimal with two places (round(x, 2)); it is modelled in hundredths.  *)
(* The tool_name / context columns, and the projects / top_tools fields    *)
(* derived from them, are not modelled: run_tools is the length of the     *)
(* source's run_tools list.                                                *)
(***************************************************************************)
EXTENDS Integers, Sequences, FiniteSets, TLC

\* ------------------------------------------------------------------ bounds
MaxTs == 3          \* timestamps of tool_events are drawn from 0..MaxTs
MaxEvents == 4      \* at most this many rows in tool_events
MaxGap == 2         \* --threshold is drawn from 0..MaxGap
MaxDur == 2         \* --min-duration is drawn from 0..MaxDur
MaxRuns == 2        \* the job is run at most this many times in a behaviour

\* ------------------------------------------------------- program constants
MaxDup == 1
MaxExtra == 2
MaxOld == 2
MaxKeep == 2
MaxSeconds == 2
MaxStamp == 2
NoneTs == -1        \* Python's None in run_start / run_end
TOP_K == 50         \* streaks[:50]
SESSION_LIMIT == 5  \* LIMIT 5
NullTs == -2        \* SQL NULL in sessions.ended_at

\* ----------------------------------------------------------------- helpers
Max(a, b) == IF a >= b THEN a ELSE b
Min(a, b) == IF a <= b THEN a ELSE b

SetMin(S) == CHOOSE x \in S : \A y \in S : x <= y

\* A table of timestamps is a multiset: a function from timestamp to the
\* number of rows that carry it.
BagSize(bag) ==
  LET RECURSIVE Sum(_)
      Sum(S) == IF S = {} THEN 0
                ELSE LET x == CHOOSE y \in S : TRUE IN bag[x] + Sum(S \ {x})
  IN Sum(DOMAIN bag)

Repeat(x, n) == [i \in 1..n |-> x]

\* SELECT timestamp ... FROM tool_events ORDER BY timestamp
RECURSIVE OrderByFrom(_, _)
OrderByFrom(bag, S) ==
  IF S = {} THEN << >>
  ELSE LET m == SetMin(S) IN Repeat(m, bag[m]) \o OrderByFrom(bag, S \ {m})

OrderByTimestamp(bag) == OrderByFrom(bag, DOMAIN bag)

\* ---------------------------------------------------------------- rounding
\* round(num/den, 0) for num >= 0, den > 0, ties to even (Python's round on a
\* value that is exact in binary; ties of avg_gap are odd multiples of 1/8).
RoundHalfEven(num, den) ==
  LET q == num \div den
      r == num % den
  IN IF 2 * r < den THEN q
     ELSE IF 2 * r > den THEN q + 1
     ELSE IF q % 2 = 0 THEN q ELSE q + 1

AvgGapDivisorNoMax(n) == n - 1

\* max(len(run_tools) - 1, 1)
AvgGapDivisor(n) == Max(n - 1, 1)

AvgGapTruncated(duration, divisor) == (100 * duration) \div divisor

\* round(duration / divisor, 2), in hundredths
AvgGap(duration, divisor) == RoundHalfEven(100 * duration, divisor)

\* ------------------------------------------------------------ segmentation
ContinuesStrict(gap, threshold) == 0 <= gap /\ gap < threshold

ContinuesNoLowerBound(gap, threshold) == gap <= threshold

ContinuesWithin(gap, threshold) == 0 - threshold <= gap /\ gap <= threshold

\* if 0 <= gap <= gap_threshold
Continues(gap, threshold) == 0 <= gap /\ gap <= threshold

MakeStreakCountsGaps(start, end, n) ==
  [start_ts |-> start,
   end_ts |-> end,
   duration_seconds |-> end - start,
   tool_count |-> n - 1,
   avg_gap_seconds |-> AvgGap(end - start, AvgGapDivisor(n)),
   resolved |-> FALSE,
   session_ids |-> << >>]

\* the dict appended to streaks
MakeStreak(start, end, n) ==
  [start_ts |-> start,
   end_ts |-> end,
   duration_seconds |-> end - start,
   tool_count |-> n,
   avg_gap_seconds |-> AvgGap(end - start, AvgGapDivisor(n)),
   resolved |-> FALSE,
   session_ids |-> << >>]

\* streaks.sort(key=lambda s: s["duration_seconds"], reverse=True): a stable
\* sort, equal durations keep their order
RECURSIVE InsertByDuration(_, _)
InsertByDuration(sorted, s) ==
  IF sorted = << >> THEN << s >>
  ELSE IF Head(sorted).duration_seconds >= s.duration_seconds
       THEN << Head(sorted) >> \o InsertByDuration(Tail(sorted), s)
       ELSE << s >> \o sorted

RECURSIVE SortByDuration(_)
SortByDuration(ss) ==
  IF ss = << >> THEN << >>
  ELSE InsertByDuration(SortByDuration(SubSeq(ss, 1, Len(ss) - 1)), ss[Len(ss)])

\* ---------------------------------------------------------- session lookup
\* datetime.utcfromtimestamp(ts).strftime("%Y-%m-%dT%H:%M:%S") + "Z": ISO-8601
\* strings of one format order as their instants do, so a string is modelled
\* by the whole second it denotes.
IsoZ(ts) == ts

RECURSIVE SelectIds(_, _)
SelectIds(table, dt) ==
  IF table = << >> THEN << >>
  ELSE LET r == Head(table)
           hit == r.started_at <= dt /\ (r.ended_at = NullTs \/ r.ended_at >= dt)
       IN (IF hit THEN << r.id >> ELSE << >>) \o SelectIds(Tail(table), dt)

TakeAll(s, n) == s

\* s[:n]
Take(s, n) == SubSeq(s, 1, Min(Len(s), n))

\* get_session_for_timestamp: the ids of the first SESSION_LIMIT matching rows
SessionsFor(table, ts) == Take(SelectIds(table, IsoZ(ts)), SESSION_LIMIT)

\* ------------------------------------------------------------- persistence
\* the tuple bound to the INSERT's placeholders
RowOf(s) ==
  [start_ts |-> s.start_ts,
   end_ts |-> s.end_ts,
   duration_seconds |-> s.duration_seconds,
   tool_count |-> s.tool_count,
   avg_gap_seconds |-> s.avg_gap_seconds,
   session_ids |-> IF s.resolved THEN s.session_ids ELSE << >>]

RowsOf(ss) == [i \in DOMAIN ss |-> RowOf(ss[i])]

\* ------------------------------------------------------------ JSON payloads
MaxVal == 1         \* the numbers in a payload are drawn from 0..MaxVal

\* A JSON value is a number or a mapping; a mapping is the sequence of its
\* items in insertion order (a Python dict), with distinct keys.
IntVal(n) == [t |-> "int", v |-> n, items |-> << >>]
DictVal(items) == [t |-> "dict", v |-> 0, items |-> items]
Item(key, val) == [key |-> key, val |-> val]

\* the order of the key strings used
KeyOrder == << "a", "b", "composite", "daemons", "error", "n", "t",
              "timestamp", "totalSessions" >>
KeyRank(key) == CHOOSE i \in DOMAIN KeyOrder : KeyOrder[i] = key

RECURSIVE InsertByKey(_, _)
InsertByKey(sorted, it) ==
  IF sorted = << >> THEN << it >>
  ELSE IF KeyRank(Head(sorted).key) <= KeyRank(it.key)
       THEN << Head(sorted) >> \o InsertByKey(Tail(sorted), it)
       ELSE << it >> \o sorted

SortByKeyKeepsOrder(items) == items

RECURSIVE SortByKey(_)
SortByKey(items) ==
  IF items = << >> THEN << >>
  ELSE InsertByKey(SortByKey(Tail(items)), Head(items))

\* json.dumps(data, sort_keys=True): the text as a sequence of tokens; the
\* items of every mapping, at every depth, are written in key order
RECURSIVE JsonDumpsSorted(_)
JsonDumpsSorted(x) ==
  LET RECURSIVE DumpItems(_)
      DumpItems(items) ==
        IF items = << >> THEN << >>
        ELSE << Head(items).key, ": " >> \o JsonDumpsSorted(Head(items).val)
               \o (IF Tail(items) = << >> THEN << >> ELSE << ", " >>)
               \o DumpItems(Tail(items))
  IN IF x.t = "int" THEN << ToString(x.v) >>
     ELSE << "{" >> \o DumpItems(SortByKey(x.items)) \o << "}" >>

\* hashlib.md5(text.encode()).hexdigest(): taken to be free of collisions on
\* the payloads of the model
Md5Hex(text) == [md5 |-> text]

\* the digest _data_changed computes
Digest(data) == Md5Hex(JsonDumpsSorted(data))

\* a Python dict as a function on the keys it holds
EmptyDict == [x \in {} |-> x]
DictPut(d, key, val) ==
  [x \in DOMAIN d \cup {key} |-> IF x = key THEN val ELSE d[x]]

\* mappings over the keys "a" and "b", the two-key ones in both orders
TwoKeyItems ==
  { << Item("a", IntVal(n)), Item("b", IntVal(0)) >> : n \in 0..MaxVal }
    \cup { << Item("b", IntVal(0)), Item("a", IntVal(n)) >> : n \in 0..MaxVal }

FlatItems ==
  { << >> } \cup { << Item("a", IntVal(n)) >> : n \in 0..MaxVal } \cup TwoKeyItems

\* the payloads handed to _data_changed: flat mappings, and mappings that
\* hold a two-key mapping under the key "n"
Payloads ==
  { DictVal(items) : items \in FlatItems }
    \cup { DictVal(<< Item("n", DictVal(items)) >>) : items \in TwoKeyItems }

\* two JSON values are deep-equal: the same number, or mappings with the same
\* keys and deep-equal values under each key, whatever the order of the items
RECURSIVE DeepEqual(_, _)
DeepEqual(x, y) ==
  /\ x.t = y.t
  /\ x.t = "int" => x.v = y.v
  /\ x.t = "dict" =>
       /\ { x.items[i].key : i \in DOMAIN x.items }
            = { y.items[j].key : j \in DOMAIN y.items }
       /\ \A i \in DOMAIN x.items, j \in DOMAIN y.items :
            x.items[i].key = y.items[j].key
              => DeepEqual(x.items[i].val, y.items[j].val)

\* the keys _run passes
Names == {"stats", "health", "velocity"}

NoCall == [key |-> "none", data |-> DictVal(<< >>), ret |-> FALSE]

\* ------------------------------------------------------------------- state
VARIABLES
  tool_events,       \* table tool_events: multiset of timestamps
  sessions,          \* table sessions, in rowid order
  autonomy_streaks,  \* table autonomy_streaks as committed, in rowid order
  gap_threshold,     \* argument of compute_streaks
  min_duration,      \* argument of compute_streaks
  pc,                \* position of the job
  rows,              \* cur.fetchall()
  idx,               \* position of the for loop in rows
  run_start,
  run_end,
  run_tools,         \* len(run_tools)
  streaks,
  k,                 \* position of the current for loop over streaks
  txn,               \* autonomy_streaks as seen inside the open transaction
  err,               \* the exception that ended the job, or "none"
  runs,              \* number of runs started
  table_before,      \* autonomy_streaks when the current run started
  history,           \* what each completed run returned and left in the table
  last_hash,         \* DataStreamer.last_hash
  call,              \* the last _data_changed call: key, data, returned value
  reordered,         \* that call repeated the call before it with items re-ordered
  clients,           \* DataStreamer.clients: the registered sinks, in order
  lock,              \* DataStreamer.lock: "free", or the thread that holds it
  running,           \* DataStreamer.running
  hpc,               \* position of each serve_sse handler
  broken,            \* the sinks whose connection is gone: every write raises
  first,             \* the kind of the first frame each sink received
  last_seq,          \* the broadcast call whose frame each open sink got last
  bseq,              \* number of broadcast calls so far
  ppc,               \* position of the thread that runs _run and broadcast
  has_clients,       \* local of _run
  health_counter,    \* local of _run
  event,             \* event_type of the broadcast call in progress
  after,             \* where the broadcast call in progress returns to
  bidx,              \* position of the for loop of broadcast in self.clients
  dead,              \* local of broadcast
  now,               \* the clock, in sleeps of _run
  tick,              \* what the current tick of _run has sampled and broadcast
  active,            \* ticks that found a client: all, and those counted at line 291
  expected,          \* the sinks added and not removed since
  api,               \* the last call made on the registry from outside serve_sse
  dest_dir,          \* the backup directory: st_mtime of each claude-db-*.db file
  timestamp,         \* datetime.now() of ccc-backup.py, in seconds
  fs_clock,          \* the time the file system stamps on a written file
  backed,            \* the last backup_database call: keep, path, files listed
  jpc,               \* position of each of two concurrent runs of the job
  jtxn,              \* autonomy_streaks as seen inside the transaction of each
  jk,                \* position of the INSERT loop of each
  wlock,             \* the run that holds the write lock of the database, or 0
  seen,              \* what the last SELECT of another connection returned
  spc,               \* position of each caller of DataStreamer.start
  tpc,               \* position of each thread that start() has started
  stops              \* number of times running was set to False

jobVars == << tool_events, sessions, autonomy_streaks, gap_threshold,
              min_duration, pc, rows, idx, run_start, run_end, run_tools,
              streaks, k, txn, err, runs, table_before, history >>
digestVars == << last_hash, call, reordered >>
registryVars == << clients, lock, broken, last_seq, bseq, ppc, event, after,
                   bidx, dead, expected, api >>
loopVars == << running, hpc, first, has_clients, health_counter, now, tick,
               active >>
streamerVars == << digestVars, registryVars, loopVars >>
backupVars == << dest_dir, timestamp, fs_clock, backed >>
twoJobVars == << jpc, jtxn, jk, wlock, seen >>
startVars == << spc, tpc, stops >>
vars == << tool_events, sessions, autonomy_streaks, gap_threshold,
           min_duration, pc, rows, idx, run_start, run_end, run_tools,
           streaks, k, txn, err, runs, table_before, history,
           last_hash, call, reordered, clients, lock, running, hpc, broken,
           first, last_seq, bseq, ppc, has_clients, health_counter, event,
           after, bidx, dead, now, expected,
           api, tick, active, dest_dir, timestamp, fs_clock, backed,
           jpc, jtxn, jk, wlock, seen, spc, tpc, stops >>

\* ------------------------------------------------------------ input spaces
\* all multisets over 0..MaxTs with at most MaxEvents rows
EventTables ==
  { bag \in [0..MaxTs -> 0..MaxEvents] : BagSize(bag) <= MaxEvents }

OpenSession == [id |-> "s1", started_at |-> 0, ended_at |-> NullTs]
SessionTables == { << >>, << OpenSession >> }

\* a row left by an earlier run over other events
StaleRow == RowOf(MakeStreak(0, MaxTs + 7, MaxEvents + 7))
OldTables == { << >>, << StaleRow >> }

\* -------------------------------------------------------- compute_streaks
JobIdle ==
  /\ pc = "idle"
  /\ rows = << >> /\ idx = 0
  /\ run_start = NoneTs /\ run_end = NoneTs /\ run_tools = 0
  /\ streaks = << >> /\ k = 0 /\ txn = << >> /\ err = "none"

NoTick == [events |-> << >>, sampled |-> << >>, raised |-> FALSE]

NoApi == [op |-> "none", w |-> 0, again |-> FALSE]

\* DataStreamer.__init__: no client, the lock free, no digest, not running
NoFiles == [f \in {} |-> 0]
NoBackupCall == [called |-> FALSE, keep |-> 0, path |-> 0, listed |-> NoFiles]

\* ccc-backup.py is not run
NoBackup ==
  /\ dest_dir = NoFiles
  /\ timestamp = 0
  /\ fs_clock = 0
  /\ backed = NoBackupCall

\* the job is not run twice at once
NoTwoJobs ==
  /\ jpc = << >> /\ jtxn = << >> /\ jk = << >>
  /\ wlock = 0
  /\ seen = << >>

\* start() is called by main alone, once
NoStart ==
  /\ spc = << >>
  /\ tpc = << >>
  /\ stops = 0

StreamerNew ==
  /\ clients = << >>
  /\ lock = "free"
  /\ last_hash = EmptyDict
  /\ running = FALSE
  /\ call = NoCall
  /\ reordered = FALSE
  /\ bseq = 0
  /\ has_clients = FALSE /\ health_counter = 0
  /\ tick = NoTick /\ active = [all |-> 0, counted |-> 0]
  /\ event = "none" /\ after = "none" /\ bidx = 0 /\ dead = << >>
  /\ now = 0
  /\ expected = {}
  /\ api = NoApi

\* the sinks S exist, and no frame was written to any of them
SinksNew(S) ==
  /\ hpc = [w \in S |-> "new"]
  /\ broken = [w \in S |-> FALSE]
  /\ first = [w \in S |-> "none"]
  /\ last_seq = [w \in S |-> 0]

\* the streamer of a process in which nobody connects
StreamerInit ==
  /\ StreamerNew
  /\ NoBackup
  /\ NoTwoJobs
  /\ NoStart
  /\ SinksNew({})
  /\ ppc = "off"

InitJob ==
  /\ tool_events \in EventTables
  /\ sessions \in SessionTables
  /\ autonomy_streaks \in OldTables
  /\ gap_threshold \in 0..MaxGap
  /\ min_duration \in 0..MaxDur
  /\ JobIdle
  /\ runs = 0
  /\ table_before = autonomy_streaks
  /\ history = << >>
  /\ StreamerInit

\* the job raises: the function is left without commit and the connection
\* is dropped, which rolls the open transaction back
Raise(e) ==
  /\ pc' = "failed"
  /\ err' = e
  /\ txn' = << >>
  /\ UNCHANGED autonomy_streaks

StartKeepsStreaks ==
  /\ pc \in {"idle", "done", "failed"}
  /\ runs < MaxRuns
  /\ runs' = runs + 1
  /\ pc' = "load"
  /\ rows' = << >> /\ idx' = 0
  /\ run_start' = NoneTs /\ run_end' = NoneTs /\ run_tools' = 0
  /\ k' = 0 /\ txn' = << >> /\ err' = "none"
  /\ table_before' = autonomy_streaks
  /\ UNCHANGED << tool_events, sessions, autonomy_streaks, gap_threshold,
                  min_duration, history, streaks >>
  /\ UNCHANGED << streamerVars, backupVars, twoJobVars, startVars >>

\* main() -> compute_streaks: sqlite3.connect, conn.cursor
Start ==
  /\ pc \in {"idle", "done", "failed"}
  /\ runs < MaxRuns
  /\ runs' = runs + 1
  /\ pc' = "load"
  /\ rows' = << >> /\ idx' = 0
  /\ run_start' = NoneTs /\ run_end' = NoneTs /\ run_tools' = 0
  /\ streaks' = << >> /\ k' = 0 /\ txn' = << >> /\ err' = "none"
  /\ table_before' = autonomy_streaks
  /\ UNCHANGED << tool_events, sessions, autonomy_streaks, gap_threshold,
                  min_duration, history >>
  /\ UNCHANGED << streamerVars, backupVars, twoJobVars, startVars >>

\* cur.execute("SELECT ... ORDER BY timestamp"); rows = cur.fetchall()
LoadEvents ==
  /\ pc = "load"
  /\ rows' = OrderByTimestamp(tool_events)
  /\ idx' = 1
  /\ pc' = "loop"
  /\ UNCHANGED << tool_events, sessions, autonomy_streaks, gap_threshold,
                  min_duration, run_start, run_end, run_tools, streaks, k,
                  txn, err, runs, table_before, history >>
  /\ UNCHANGED << streamerVars, backupVars, twoJobVars, startVars >>

\* the SELECT raises (EventLog unreachable)
LoadFails ==
  /\ pc = "load"
  /\ Raise("load")
  /\ UNCHANGED << tool_events, sessions, gap_threshold, min_duration, rows,
                  idx, run_start, run_end, run_tools, streaks, k, runs,
                  table_before, history >>
  /\ UNCHANGED << streamerVars, backupVars, twoJobVars, startVars >>

CloseRunTwice(ss, start, end, n, mind) ==
  IF end - start >= mind
  THEN Append(Append(ss, MakeStreak(start, end, n)), MakeStreak(start, end, n))
  ELSE ss

CloseRunStrict(ss, start, end, n, mind) ==
  IF end - start > mind THEN Append(ss, MakeStreak(start, end, n)) ELSE ss

\* the streaks list after the current run is closed: one more streak iff
\* duration >= min_duration
CloseRun(ss, start, end, n, mind) ==
  IF end - start >= mind THEN Append(ss, MakeStreak(start, end, n)) ELSE ss

\* one iteration of "for ts, tool, ctx in rows"
LoopStep ==
  /\ pc = "loop"
  /\ idx <= Len(rows)
  /\ LET ts == rows[idx]
         gap == ts - run_end
     IN IF run_start = NoneTs
        THEN /\ run_start' = ts /\ run_end' = ts /\ run_tools' = 1
             /\ idx' = idx + 1
             /\ UNCHANGED << streaks, pc, err, txn, autonomy_streaks >>
        ELSE IF Continues(gap, gap_threshold)
        THEN /\ run_end' = ts /\ run_tools' = run_tools + 1
             /\ idx' = idx + 1
             /\ UNCHANGED << run_start, streaks, pc, err, txn,
                             autonomy_streaks >>
        ELSE IF run_end - run_start >= min_duration
                /\ AvgGapDivisor(run_tools) = 0
        THEN /\ Raise("ZeroDivisionError")
             /\ UNCHANGED << run_start, run_end, run_tools, streaks, idx >>
        ELSE /\ streaks' = CloseRun(streaks, run_start, run_end, run_tools,
                                    min_duration)
             /\ run_start' = ts /\ run_end' = ts /\ run_tools' = 1
             /\ idx' = idx + 1
             /\ UNCHANGED << pc, err, txn, autonomy_streaks >>
  /\ UNCHANGED << tool_events, sessions, gap_threshold, min_duration, rows,
                  k, runs, table_before, history >>
  /\ UNCHANGED << streamerVars, backupVars, twoJobVars, startVars >>

\* "Don't forget the last run", then the loop is over
LastRun ==
  /\ pc = "loop"
  /\ idx > Len(rows)
  /\ IF run_start # NoneTs /\ run_end - run_start >= min_duration
        /\ AvgGapDivisor(run_tools) = 0
     THEN /\ Raise("ZeroDivisionError")
          /\ UNCHANGED streaks
     ELSE /\ streaks' = IF run_start # NoneTs
                        THEN CloseRun(streaks, run_start, run_end, run_tools,
                                      min_duration)
                        ELSE streaks
          /\ pc' = "sort"
          /\ UNCHANGED << err, txn, autonomy_streaks >>
  /\ UNCHANGED << tool_events, sessions, gap_threshold, min_duration, rows,
                  idx, run_start, run_end, run_tools, k, runs, table_before,
                  history >>
  /\ UNCHANGED << streamerVars, backupVars, twoJobVars, startVars >>

\* streaks.sort(key=duration, reverse=True)
SortStreaks ==
  /\ pc = "sort"
  /\ streaks' = SortByDuration(streaks)
  /\ k' = 1
  /\ pc' = "resolve"
  /\ UNCHANGED << tool_events, sessions, autonomy_streaks, gap_threshold,
                  min_duration, rows, idx, run_start, run_end, run_tools,
                  txn, err, runs, table_before, history >>
  /\ UNCHANGED << streamerVars, backupVars, twoJobVars, startVars >>

\* one iteration of "for s in streaks[:50]": the lookup returns
ResolveSession ==
  /\ pc = "resolve"
  /\ k <= Len(Take(streaks, TOP_K))
  /\ streaks' = [streaks EXCEPT
                   ![k].resolved = TRUE,
                   ![k].session_ids = SessionsFor(sessions, streaks[k].start_ts)]
  /\ k' = k + 1
  /\ UNCHANGED << tool_events, sessions, autonomy_streaks, gap_threshold,
                  min_duration, pc, rows, idx, run_start, run_end, run_tools,
                  txn, err, runs, table_before, history >>
  /\ UNCHANGED << streamerVars, backupVars, twoJobVars, startVars >>

\* the lookup raises: nothing in get_session_for_timestamp or around its call
\* catches it
ResolveFails ==
  /\ pc = "resolve"
  /\ k <= Len(Take(streaks, TOP_K))
  /\ Raise("session_lookup")
  /\ UNCHANGED << tool_events, sessions, gap_threshold, min_duration, rows,
                  idx, run_start, run_end, run_tools, streaks, k, runs,
                  table_before, history >>
  /\ UNCHANGED << streamerVars, backupVars, twoJobVars, startVars >>

DeleteAllKeepsRows(table) == table

\* the table after DELETE FROM autonomy_streaks, inside the transaction the
\* statement opens
DeleteAll(table) == << >>

DeleteAutocommit ==
  /\ pc = "resolve"
  /\ k > Len(Take(streaks, TOP_K))
  /\ autonomy_streaks' = << >>
  /\ txn' = << >>
  /\ k' = 1
  /\ pc' = "insert"
  /\ UNCHANGED << tool_events, sessions, gap_threshold, min_duration, rows,
                  idx, run_start, run_end, run_tools, streaks, err, runs,
                  table_before, history >>
  /\ UNCHANGED << streamerVars, backupVars, twoJobVars, startVars >>

\* conn.execute("DELETE FROM autonomy_streaks")
Delete ==
  /\ pc = "resolve"
  /\ k > Len(Take(streaks, TOP_K))
  /\ txn' = DeleteAll(autonomy_streaks)
  /\ k' = 1
  /\ pc' = "insert"
  /\ UNCHANGED << tool_events, sessions, autonomy_streaks, gap_threshold,
                  min_duration, rows, idx, run_start, run_end, run_tools,
                  streaks, err, runs, table_before, history >>
  /\ UNCHANGED << streamerVars, backupVars, twoJobVars, startVars >>

DeleteFails ==
  /\ pc = "resolve"
  /\ k > Len(Take(streaks, TOP_K))
  /\ Raise("delete")
  /\ UNCHANGED << tool_events, sessions, gap_threshold, min_duration, rows,
                  idx, run_start, run_end, run_tools, streaks, k, runs,
                  table_before, history >>
  /\ UNCHANGED << streamerVars, backupVars, twoJobVars, startVars >>

\* one iteration of "for s in streaks: conn.execute(INSERT ...)"
Insert ==
  /\ pc = "insert"
  /\ k <= Len(streaks)
  /\ txn' = Append(txn, RowOf(streaks[k]))
  /\ k' = k + 1
  /\ UNCHANGED << tool_events, sessions, autonomy_streaks, gap_threshold,
                  min_duration, pc, rows, idx, run_start, run_end, run_tools,
                  streaks, err, runs, table_before, history >>
  /\ UNCHANGED << streamerVars, backupVars, twoJobVars, startVars >>

InsertFails ==
  /\ pc = "insert"
  /\ k <= Len(streaks)
  /\ Raise("insert")
  /\ UNCHANGED << tool_events, sessions, gap_threshold, min_duration, rows,
                  idx, run_start, run_end, run_tools, streaks, k, runs,
                  table_before, history >>
  /\ UNCHANGED << streamerVars, backupVars, twoJobVars, startVars >>

\* conn.commit(), the summary, conn.close(), return streaks
Commit ==
  /\ pc = "insert"
  /\ k > Len(streaks)
  /\ autonomy_streaks' = txn
  /\ txn' = << >>
  /\ pc' = "done"
  /\ history' = Append(history, [streaks |-> streaks, table |-> txn,
                                 sessions |-> sessions])
  /\ UNCHANGED << tool_events, sessions, gap_threshold, min_duration, rows,
                  idx, run_start, run_end, run_tools, streaks, k, err, runs,
                  table_before >>
  /\ UNCHANGED << streamerVars, backupVars, twoJobVars, startVars >>

CommitFails ==
  /\ pc = "insert"
  /\ k > Len(streaks)
  /\ Raise("commit")
  /\ UNCHANGED << tool_events, sessions, gap_threshold, min_duration, rows,
                  idx, run_start, run_end, run_tools, streaks, k, runs,
                  table_before, history >>
  /\ UNCHANGED << streamerVars, backupVars, twoJobVars, startVars >>

\* between two runs another program writes the sessions table: a session
\* starts or the open one ends
SessionsChange ==
  /\ pc \in {"done", "failed"}
  /\ runs < MaxRuns
  /\ \/ /\ sessions = << >>
        /\ sessions' = << OpenSession >>
     \/ /\ sessions = << OpenSession >>
        /\ sessions' = << [OpenSession EXCEPT !.ended_at = 0] >>
  /\ UNCHANGED << tool_events, autonomy_streaks, gap_threshold, min_duration,
                  pc, rows, idx, run_start, run_end, run_tools, streaks, k,
                  txn, err, runs, table_before, history >>
  /\ UNCHANGED << streamerVars, backupVars, twoJobVars, startVars >>

NextJob ==
  \/ Start
  \/ LoadEvents
  \/ LoadFails
  \/ LoopStep
  \/ LastRun
  \/ SortStreaks
  \/ ResolveSession
  \/ ResolveFails
  \/ Delete
  \/ DeleteFails
  \/ Insert
  \/ InsertFails
  \/ Commit
  \/ CommitFails
  \/ SessionsChange

SpecJob == InitJob /\ [][NextJob]_vars

\* the example of the specification: events at 0, 5, 10, 50, 55, threshold 30
ExampleEvents == [t \in {0, 5, 10, 50, 55} |-> 1]

InitExample ==
  /\ tool_events = ExampleEvents
  /\ sessions \in SessionTables
  /\ autonomy_streaks \in OldTables
  /\ gap_threshold = 30
  /\ min_duration \in {0, 60}
  /\ JobIdle
  /\ runs = 0
  /\ table_before = autonomy_streaks
  /\ history = << >>
  /\ StreamerInit

SpecExample == InitExample /\ [][NextJob]_vars

\* ------------------------------------------------- claims: compute_streaks
AfterLoop == {"sort", "resolve", "insert", "done"}

IsSorted(seq) == \A i \in 1..(Len(seq) - 1) : seq[i] <= seq[i + 1]

\* gaps of rows i..j all lie in [0, gap_threshold]
IsRun(i, j) ==
  /\ 1 <= i /\ i <= j /\ j <= Len(rows)
  /\ \A m \in i..(j - 1) :
       0 <= rows[m + 1] - rows[m] /\ rows[m + 1] - rows[m] <= gap_threshold

Breaks(m) == rows[m + 1] - rows[m] < 0 \/ rows[m + 1] - rows[m] > gap_threshold

MaximalRuns ==
  { r \in (1..Len(rows)) \X (1..Len(rows)) :
      /\ IsRun(r[1], r[2])
      /\ r[1] = 1 \/ Breaks(r[1] - 1)
      /\ r[2] = Len(rows) \/ Breaks(r[2]) }

QualifyingRuns ==
  { r \in MaximalRuns : rows[r[2]] - rows[r[1]] >= min_duration }

StreakIsRun(s, r) ==
  /\ s.start_ts = rows[r[1]]
  /\ s.end_ts = rows[r[2]]
  /\ s.tool_count = r[2] - r[1] + 1

\* C1: for rows sorted ascending, gap_threshold > 0 and min_duration >= 0,
\* once the pass is over there is exactly one streak per maximal run of
\* gaps in [0, gap_threshold] whose duration is >= min_duration, no other
\* streak, and each streak carries its run's first timestamp, last timestamp
\* and number of events.
C1_OneStreakPerQualifyingRun ==
  (pc \in AfterLoop /\ IsSorted(rows) /\ gap_threshold > 0 /\ min_duration >= 0)
  => /\ Len(streaks) = Cardinality(QualifyingRuns)
     /\ \A r \in QualifyingRuns :
          Cardinality({ n \in DOMAIN streaks : StreakIsRun(streaks[n], r) }) = 1
     /\ \A n \in DOMAIN streaks :
          \E r \in QualifyingRuns : StreakIsRun(streaks[n], r)

\* a pass that emitted a streak and dropped a run shorter than min_duration
C1_Witness ==
  /\ pc = "sort" /\ gap_threshold > 0 /\ min_duration > 0
  /\ Len(streaks) >= 1
  /\ Cardinality(MaximalRuns) > Len(streaks)

Core(s) ==
  [start_ts |-> s.start_ts, end_ts |-> s.end_ts,
   duration_seconds |-> s.duration_seconds, tool_count |-> s.tool_count]

CoreOf(ss) == [i \in DOMAIN ss |-> Core(ss[i])]

\* C2: events at 0, 5, 10, 50, 55 with gap_threshold 30 give, with
\* min_duration 0, exactly the streaks (0, 10, duration 10, 3 events) and
\* (50, 55, duration 5, 2 events), and with min_duration 60 none.
C2_Example ==
  (pc \in AfterLoop /\ rows = << 0, 5, 10, 50, 55 >> /\ gap_threshold = 30)
  => /\ min_duration = 0 =>
          CoreOf(streaks) =
            << [start_ts |-> 0, end_ts |-> 10, duration_seconds |-> 10,
                tool_count |-> 3],
               [start_ts |-> 50, end_ts |-> 55, duration_seconds |-> 5,
                tool_count |-> 2] >>
     /\ min_duration = 60 => streaks = << >>

C2_Witness ==
  /\ pc = "done" /\ rows = << 0, 5, 10, 50, 55 >> /\ gap_threshold = 30
  /\ min_duration = 0 /\ Len(autonomy_streaks) = 2

\* C3: no two emitted streaks overlap in time: one ends strictly before the
\* other starts, and the gap between them exceeds gap_threshold.
C3_NoOverlap ==
  IsSorted(rows) =>
    \A a, b \in DOMAIN streaks :
      a # b =>
        \/ /\ streaks[a].end_ts < streaks[b].start_ts
           /\ streaks[b].start_ts - streaks[a].end_ts > gap_threshold
        \/ /\ streaks[b].end_ts < streaks[a].start_ts
           /\ streaks[a].start_ts - streaks[b].end_ts > gap_threshold

C3_Witness == pc = "sort" /\ Len(streaks) >= 2

\* every streak emitted so far and every row written by this run
Emitted ==
  { streaks[n] : n \in DOMAIN streaks }
Persisted ==
  { txn[n] : n \in DOMAIN txn }
    \cup (IF pc = "done" THEN { autonomy_streaks[n] : n \in DOMAIN autonomy_streaks }
          ELSE {})

Abs(x) == IF x >= 0 THEN x ELSE 0 - x

\* C4 as claimed: avg_gap equals duration / max(tool_count - 1, 1) exactly
\* (avg_gap_seconds is in hundredths).
C4_AvgGapExact ==
  \A s \in Emitted \cup Persisted :
     s.avg_gap_seconds * Max(s.tool_count - 1, 1) = 100 * s.duration_seconds

\* C4 as amended: avg_gap is duration / max(tool_count - 1, 1) rounded to two
\* decimal places, that is a hundredth nearest to the quotient.
C4_AvgGapRounded ==
  \A s \in Emitted \cup Persisted :
     2 * Abs(100 * s.duration_seconds
               - s.avg_gap_seconds * Max(s.tool_count - 1, 1))
       <= Max(s.tool_count - 1, 1)

\* a persisted streak whose quotient is not a whole number of hundredths
C4_Witness ==
  /\ pc = "done"
  /\ \E n \in DOMAIN autonomy_streaks :
       (100 * autonomy_streaks[n].duration_seconds)
          % Max(autonomy_streaks[n].tool_count - 1, 1) # 0

\* C5: a run of a single event has duration 0 and, when emitted, avg_gap 0,
\* and the job never fails with a division by zero.
C5_SingleEventAvgGap ==
  /\ err # "ZeroDivisionError"
  /\ \A s \in Emitted \cup Persisted :
       s.tool_count = 1 => s.duration_seconds = 0 /\ s.avg_gap_seconds = 0

C5_Witness ==
  /\ pc = "done" /\ min_duration = 0
  /\ \E n \in DOMAIN autonomy_streaks : autonomy_streaks[n].tool_count = 1

CoreRow(r) ==
  [start_ts |-> r.start_ts, end_ts |-> r.end_ts,
   duration_seconds |-> r.duration_seconds, tool_count |-> r.tool_count,
   avg_gap_seconds |-> r.avg_gap_seconds]

CoreRows(t) == [i \in DOMAIN t |-> CoreRow(t[i])]

\* C6 as claimed: two runs over the same events and thresholds return the
\* same streaks (session_ids excluded) and leave the same table content.
C6_SameTable ==
  \A a, b \in DOMAIN history :
     /\ CoreRows(RowsOf(history[a].streaks)) = CoreRows(RowsOf(history[b].streaks))
     /\ history[a].table = history[b].table

\* C6 as amended: two runs over the same events and thresholds return the
\* same streaks in the same order with the same field values, session_ids
\* excluded, and leave the same table content, the session_ids column
\* excluded; the session_ids agree too when the sessions table is the same.
C6_SameTableButSessionIds ==
  \A a, b \in DOMAIN history :
     /\ CoreRows(RowsOf(history[a].streaks)) = CoreRows(RowsOf(history[b].streaks))
     /\ CoreRows(history[a].table) = CoreRows(history[b].table)
     /\ history[a].sessions = history[b].sessions
          => /\ history[a].streaks = history[b].streaks
             /\ history[a].table = history[b].table

C6_Witness ==
  /\ pc = "done" /\ Len(history) = 2
  /\ Len(history[1].table) >= 2
  /\ history[1].sessions # history[2].sessions

\* C7: after a successful run the table holds exactly one row per computed
\* streak, in the order of the list, and nothing it held before.
C7_FullReplace ==
  pc = "done" =>
     /\ Len(autonomy_streaks) = Len(streaks)
     /\ \A n \in DOMAIN streaks :
          /\ CoreRow(autonomy_streaks[n]) = CoreRow(streaks[n])
          /\ autonomy_streaks[n].session_ids = streaks[n].session_ids

C7_Witness ==
  /\ pc = "done" /\ table_before # << >> /\ Len(streaks) >= 1

\* C8: a session lookup that raises does not fail the job.
C8_LookupFailureSwallowed ==
  ~(pc = "failed" /\ err = "session_lookup")

\* C9: while a run has not committed, and after it failed at any step, the
\* table holds exactly the rows it held when the run started; once it is
\* done the table holds the complete new content.
C9_NoPartialCommit ==
  /\ pc # "done" => autonomy_streaks = table_before
  /\ pc = "done" => autonomy_streaks = RowsOf(streaks)

\* an INSERT fails after the DELETE and an earlier INSERT went through
C9_Witness ==
  /\ pc = "failed" /\ err = "insert" /\ k > 1
  /\ table_before # << >>

\* ------------------------------------------------- DataStreamer._data_changed
DataChangedNeverStores(key, data) ==
  /\ call' = [key |-> key, data |-> data,
              ret |-> (key \notin DOMAIN last_hash \/ last_hash[key] # Digest(data))]
  /\ UNCHANGED last_hash
  /\ UNCHANGED << jobVars, backupVars, twoJobVars, startVars >>

\* _data_changed(key, data)
DataChanged(key, data) ==
  LET h == Digest(data)
  IN /\ IF key \notin DOMAIN last_hash \/ last_hash[key] # h
        THEN /\ last_hash' = DictPut(last_hash, key, h)
             /\ call' = [key |-> key, data |-> data, ret |-> TRUE]
        ELSE /\ UNCHANGED last_hash
             /\ call' = [key |-> key, data |-> data, ret |-> FALSE]
     /\ UNCHANGED << jobVars, backupVars, twoJobVars, startVars >>

InitDigest ==
  /\ StreamerInit
  /\ tool_events = [t \in {} |-> 0]
  /\ sessions = << >>
  /\ autonomy_streaks = << >>
  /\ gap_threshold = 0
  /\ min_duration = 0
  /\ JobIdle
  /\ runs = 0
  /\ table_before = << >>
  /\ history = << >>

\* a caller hands any payload to _data_changed under any of the keys
CallDataChanged ==
  \E key \in Names, data \in Payloads :
     /\ DataChanged(key, data)
     /\ reordered' = (call.key = key /\ call.data # data
                        /\ DeepEqual(call.data, data))
     /\ UNCHANGED << registryVars, loopVars >>

NextDigest == CallDataChanged

SpecDigest == InitDigest /\ [][NextDigest]_vars

\* C10: a call of _data_changed(key, data) returns true iff no digest is
\* stored for key or the stored one differs from the digest of data; it
\* stores the digest of data for key, and touches no other key, exactly when
\* it returns true, and leaves the map as it is when it returns false.  So a
\* call for a key that has no digest returns true, and a call that repeats
\* the previous call's key and payload returns false.
C10_DataChangedContract ==
  [][ LET key == call'.key
          h == Digest(call'.data)
          differs == key \notin DOMAIN last_hash \/ last_hash[key] # h
      IN /\ call'.ret = differs
         /\ call'.ret =>
              /\ DOMAIN last_hash' = DOMAIN last_hash \cup {key}
              /\ last_hash'[key] = h
              /\ \A x \in DOMAIN last_hash \ {key} : last_hash'[x] = last_hash[x]
         /\ ~call'.ret => last_hash' = last_hash
         /\ key \notin DOMAIN last_hash => call'.ret
         /\ (call.key = key /\ call.data = call'.data) => ~call'.ret
    ]_vars

\* the second of two calls with the same key and payload has returned false
C10_Witness ==
  /\ call.key = "stats" /\ ~call.ret
  /\ DOMAIN last_hash = Names
  /\ last_hash["stats"] = Digest(call.data)
  /\ last_hash["health"] # last_hash["stats"]

\* C11: the digest does not depend on the order of mapping keys, at any
\* depth: a call for a key that has no digest returns true, and a call whose
\* key is the previous call's and whose payload is deep-equal to the previous
\* call's, in whatever item order, returns false and leaves the map alone.
C11_KeyOrderIndependent ==
  [][ /\ call'.key \notin DOMAIN last_hash => call'.ret
      /\ (call.key = call'.key /\ DeepEqual(call.data, call'.data))
           => /\ ~call'.ret
              /\ last_hash' = last_hash
    ]_vars

\* a nested payload was repeated with the inner items in the other order
C11_Witness ==
  /\ reordered /\ ~call.ret
  /\ \E i \in DOMAIN call.data.items : call.data.items[i].val.t = "dict"

\* ------------------------------------------------ DataStreamer: the registry
NumSinks == 3        \* sinks of the registry specification
MaxBroadcasts == 2   \* broadcast calls of the registry specification

SetOf(list) == { list[i] : i \in DOMAIN list }

\* a removal that moves the last entry into the place of the removed one
WithoutClientSwap(cl, w) ==
  IF w \notin SetOf(cl) THEN cl
  ELSE LET i == CHOOSE j \in DOMAIN cl : cl[j] = w
       IN SubSeq([cl EXCEPT ![i] = cl[Len(cl)]], 1, Len(cl) - 1)

\* [c for c in self.clients if c is not wfile]
WithoutClient(cl, w) == SelectSeq(cl, LAMBDA c : c # w)

\* a broadcast that puts the failed sinks back at the end of the registry
RECURSIVE RemoveDeadRequeue(_, _)
RemoveDeadRequeue(cl, dd) ==
  IF dd = << >> THEN cl
  ELSE RemoveDeadRequeue(Append(WithoutClient(cl, Head(dd)), Head(dd)), Tail(dd))

\* an add_client that starts the list over
AppendClientReplaces(cl, w) == << w >>

\* self.clients.append(wfile)
AppendClient(cl, w) == Append(cl, w)

\* for d in dead: self.clients = [c for c in self.clients if c is not d]
RECURSIVE RemoveDead(_, _)
RemoveDead(cl, dd) ==
  IF dd = << >> THEN cl
  ELSE RemoveDead(WithoutClient(cl, Head(dd)), Tail(dd))

\* add_client(wfile): the append, under the lock
AddClient(w) ==
  /\ lock = "free"
  /\ clients' = AppendClient(clients, w)
  /\ expected' = expected \cup {w}

\* remove_client(wfile): the filter, under the lock
RemoveClient(w) ==
  /\ lock = "free"
  /\ clients' = WithoutClient(clients, w)
  /\ expected' = expected \ {w}

\* the caller reaches broadcast(event_type, data) and will return to place
CallBroadcast(event_type, place) ==
  /\ ppc' = "bc"
  /\ event' = event_type
  /\ after' = place

\* broadcast: the frame is encoded and the lock is taken
BcAcquire ==
  /\ ppc = "bc" /\ lock = "free"
  /\ lock' = "broadcast"
  /\ ppc' = "bc_write"
  /\ bseq' = bseq + 1
  /\ bidx' = 1
  /\ dead' = << >>
  /\ UNCHANGED << clients, broken, last_seq, event, after, expected, first, api >>
  /\ UNCHANGED << running, hpc, has_clients, health_counter, now, tick, active >>
  /\ UNCHANGED << digestVars, jobVars, backupVars, twoJobVars, startVars >>

\* a broadcast whose loop ends at the first write that raises
BcWriteStopsAtFailure ==
  /\ ppc = "bc_write" /\ bidx <= Len(clients)
  /\ LET w == clients[bidx]
     IN \/ /\ ~broken[w]
           /\ last_seq' = [last_seq EXCEPT ![w] = bseq]
           /\ first' = [first EXCEPT ![w] = IF @ = "none" THEN "broadcast" ELSE @]
           /\ bidx' = bidx + 1
           /\ UNCHANGED << broken, dead >>
        \/ /\ broken' = [broken EXCEPT ![w] = TRUE]
           /\ dead' = Append(dead, w)
           /\ bidx' = Len(clients) + 1
           /\ UNCHANGED << last_seq, first >>
  /\ UNCHANGED << clients, lock, bseq, ppc, event, after, expected, api >>
  /\ UNCHANGED << running, hpc, has_clients, health_counter, now, tick, active >>
  /\ UNCHANGED << digestVars, jobVars, backupVars, twoJobVars, startVars >>

\* a broadcast that writes the frame of the call before it
BcWriteOldFrame ==
  /\ ppc = "bc_write" /\ bidx <= Len(clients)
  /\ LET w == clients[bidx]
     IN \/ /\ ~broken[w]
           /\ last_seq' = [last_seq EXCEPT ![w] = bseq - 1]
           /\ first' = [first EXCEPT ![w] = IF @ = "none" THEN "broadcast" ELSE @]
           /\ UNCHANGED << broken, dead >>
        \/ /\ broken' = [broken EXCEPT ![w] = TRUE]
           /\ dead' = Append(dead, w)
           /\ UNCHANGED << last_seq, first >>
  /\ bidx' = bidx + 1
  /\ UNCHANGED << clients, lock, bseq, ppc, event, after, expected, api >>
  /\ UNCHANGED << running, hpc, has_clients, health_counter, now, tick, active >>
  /\ UNCHANGED << digestVars, jobVars, backupVars, twoJobVars, startVars >>

\* a broadcast whose failed write says nothing about the writes after it
BcWriteTransient ==
  /\ ppc = "bc_write" /\ bidx <= Len(clients)
  /\ LET w == clients[bidx]
     IN \/ /\ ~broken[w]
           /\ last_seq' = [last_seq EXCEPT ![w] = bseq]
           /\ first' = [first EXCEPT ![w] = IF @ = "none" THEN "broadcast" ELSE @]
           /\ UNCHANGED << broken, dead >>
        \/ /\ dead' = Append(dead, w)
           /\ UNCHANGED << broken, last_seq, first >>
  /\ bidx' = bidx + 1
  /\ UNCHANGED << clients, lock, bseq, ppc, event, after, expected, api >>
  /\ UNCHANGED << running, hpc, has_clients, health_counter, now, tick, active >>
  /\ UNCHANGED << digestVars, jobVars, backupVars, twoJobVars, startVars >>

\* broadcast, one turn of `for client in self.clients`, with the lock held:
\* client.write and client.flush go through, or raise and the client is
\* appended to dead; a sink whose connection is gone raises from then on
BcWrite ==
  /\ ppc = "bc_write" /\ bidx <= Len(clients)
  /\ LET w == clients[bidx]
     IN \/ /\ ~broken[w]
           /\ last_seq' = [last_seq EXCEPT ![w] = bseq]
           /\ first' = [first EXCEPT ![w] = IF @ = "none" THEN "broadcast" ELSE @]
           /\ UNCHANGED << broken, dead >>
        \/ /\ broken' = [broken EXCEPT ![w] = TRUE]
           /\ dead' = Append(dead, w)
           /\ UNCHANGED << last_seq, first >>
  /\ bidx' = bidx + 1
  /\ UNCHANGED << clients, lock, bseq, ppc, event, after, expected, api >>
  /\ UNCHANGED << running, hpc, has_clients, health_counter, now, tick, active >>
  /\ UNCHANGED << digestVars, jobVars, backupVars, twoJobVars, startVars >>

\* a broadcast that returns with the lock held
BcFinishKeepsLock ==
  /\ ppc = "bc_write" /\ bidx > Len(clients)
  /\ clients' = RemoveDead(clients, dead)
  /\ expected' = expected \ SetOf(dead)
  /\ ppc' = after
  /\ event' = "none" /\ after' = "none" /\ bidx' = 0 /\ dead' = << >>
  /\ UNCHANGED << lock, broken, last_seq, bseq, first, api >>
  /\ UNCHANGED << running, hpc, has_clients, health_counter, now, tick, active >>
  /\ UNCHANGED << digestVars, jobVars, backupVars, twoJobVars, startVars >>

\* broadcast, after the loop: the dead clients leave the registry, the lock
\* is released and the call returns
BcFinish ==
  /\ ppc = "bc_write" /\ bidx > Len(clients)
  /\ clients' = RemoveDead(clients, dead)
  /\ expected' = expected \ SetOf(dead)
  /\ lock' = "free"
  /\ ppc' = after
  /\ event' = "none" /\ after' = "none" /\ bidx' = 0 /\ dead' = << >>
  /\ UNCHANGED << broken, last_seq, bseq, first, api >>
  /\ UNCHANGED << running, hpc, has_clients, health_counter, now, tick, active >>
  /\ UNCHANGED << digestVars, jobVars, backupVars, twoJobVars, startVars >>

\* no job runs in the process of the server
NoJob ==
  /\ tool_events = [t \in {} |-> 0]
  /\ sessions = << >>
  /\ autonomy_streaks = << >>
  /\ gap_threshold = 0
  /\ min_duration = 0
  /\ JobIdle
  /\ runs = 0
  /\ table_before = << >>
  /\ history = << >>

\* ---------------------------- the registry, called by one thread at a time
InitRegistry ==
  /\ StreamerNew
  /\ SinksNew(1..NumSinks)
  /\ ppc = "api"
  /\ NoJob
  /\ NoBackup
  /\ NoTwoJobs
  /\ NoStart

ApiFrame ==
  /\ UNCHANGED << lock, broken, last_seq, bseq, bidx, dead, first >>
  /\ UNCHANGED << running, hpc, has_clients, health_counter, now, tick, active >>
  /\ UNCHANGED << digestVars, jobVars, backupVars, twoJobVars, startVars >>

\* streamer.add_client(w) for a sink that is not registered
ApiAddClient ==
  \E w \in DOMAIN broken :
     /\ ppc = "api"
     /\ w \notin SetOf(clients)
     /\ AddClient(w)
     /\ api' = [op |-> "add", w |-> w, again |-> FALSE]
     /\ UNCHANGED << ppc, event, after >>
     /\ ApiFrame

\* streamer.remove_client(w) for any sink, registered or not
ApiRemoveClient ==
  \E w \in DOMAIN broken :
     /\ ppc = "api"
     /\ RemoveClient(w)
     /\ api' = [op |-> "remove", w |-> w,
                again |-> (api.op = "remove" /\ api.w = w)]
     /\ UNCHANGED << ppc, event, after >>
     /\ ApiFrame

\* streamer.broadcast(...)
ApiBroadcast ==
  /\ ppc = "api"
  /\ bseq < MaxBroadcasts
  /\ CallBroadcast("stats", "api")
  /\ api' = [op |-> "broadcast", w |-> 0, again |-> FALSE]
  /\ UNCHANGED << clients, expected >>
  /\ ApiFrame

NextRegistry ==
  \/ ApiAddClient
  \/ ApiRemoveClient
  \/ ApiBroadcast
  \/ BcAcquire
  \/ BcWrite
  \/ BcFinish

SpecRegistry == InitRegistry /\ [][NextRegistry]_vars

PosOf(list, x) == CHOOSE i \in DOMAIN list : list[i] = x

\* C16: remove_client(sink) returns without raising and leaves in the
\* registry exactly the entries that are not sink, in their old relative
\* order; for a sink that is not registered, and when the call repeats the
\* call before it, the registry is left as it was.
C16_RemoveByIdentity ==
  [][ (api' # api /\ api'.op = "remove")
        => LET w == api'.w
           IN /\ ppc' = "api" /\ lock' = "free"
              /\ SetOf(clients') = SetOf(clients) \ {w}
              /\ Len(clients') = Cardinality(SetOf(clients'))
              /\ \A x, y \in SetOf(clients') :
                   PosOf(clients', x) < PosOf(clients', y)
                     <=> PosOf(clients, x) < PosOf(clients, y)
              /\ w \notin SetOf(clients) => clients' = clients
              /\ api'.again => clients' = clients
    ]_vars

\* remove_client was called twice in a row for a sink, and the two sinks
\* registered around it are still there in their order
C16_Witness ==
  /\ api.op = "remove" /\ api.again
  /\ api.w = 2
  /\ clients = << 3, 1 >>
  /\ ~broken[2] /\ last_seq[2] > 0

\* ------------------------------------- the server: _run and the connections
NumConn == 2         \* connections to /api/stream
MaxTicks == 1        \* sleeps of _run
HEALTH_EVERY == 5    \* if health_counter >= 5

\* what _poll_stats returns: the totals read and the time of the read, or
\* the error and the time; the other fields are read like totalSessions
StatsPayload(ok, total, ts) ==
  IF ok THEN DictVal(<< Item("totalSessions", IntVal(total)),
                        Item("timestamp", IntVal(ts)) >>)
  ELSE DictVal(<< Item("error", IntVal(0)), Item("timestamp", IntVal(ts)) >>)

\* what _poll_health returns
HealthPayload(daemons, ts) ==
  DictVal(<< Item("daemons", IntVal(daemons)), Item("timestamp", IntVal(ts)) >>)

\* what _poll_velocity returns: the field sampled (its numbers are left out)
\* and the time, or the error and the time
VelocityPayload(ok, ts) ==
  IF ok THEN DictVal(<< Item("composite", IntVal(0)),
                        Item("timestamp", IntVal(ts)) >>)
  ELSE DictVal(<< Item("error", IntVal(0)), Item("timestamp", IntVal(ts)) >>)

HasKey(payload, key) == \E i \in DOMAIN payload.items : payload.items[i].key = key
ValueAt(payload, key) ==
  payload.items[CHOOSE i \in DOMAIN payload.items : payload.items[i].key = key].val

\* the server as main finds it: the streamer is constructed, not started
FreshServer ==
  /\ StreamerNew
  /\ ppc = "off"

\* the server after HEALTH_EVERY - 1 ticks with a client that has left since:
\* the loop is at its head, the counter is one short of the health poll and
\* the digest of the last stats, read one sleep ago, is stored
WarmServer ==
  /\ clients = << >>
  /\ lock = "free"
  /\ last_hash = DictPut(EmptyDict, "stats", Digest(StatsPayload(TRUE, 0, 0)))
  /\ running = TRUE
  /\ call = NoCall
  /\ reordered = FALSE
  /\ bseq = 0
  /\ has_clients = FALSE /\ health_counter = HEALTH_EVERY - 1
  /\ tick = NoTick
  /\ active = [all |-> HEALTH_EVERY - 1, counted |-> HEALTH_EVERY - 1]
  /\ event = "none" /\ after = "none" /\ bidx = 0 /\ dead = << >>
  /\ now = 1
  /\ expected = {}
  /\ api = NoApi
  /\ ppc = "check"

InitStream ==
  /\ FreshServer \/ WarmServer
  /\ SinksNew(1..NumConn)
  /\ NoJob
  /\ NoBackup
  /\ NoTwoJobs
  /\ NoStart

RunFrame ==
  /\ UNCHANGED << clients, lock, broken, last_seq, bseq, bidx, dead, expected,
                  api, first, hpc, running >>
  /\ UNCHANGED << jobVars, backupVars, twoJobVars, startVars >>

\* main: streamer.start(), then the server accepts connections
StartStreamer ==
  /\ ppc = "off" /\ ~running
  /\ running' = TRUE
  /\ ppc' = "check"
  /\ UNCHANGED << clients, lock, broken, last_seq, bseq, bidx, dead, expected,
                  api, first, hpc, event, after, has_clients, health_counter,
                  now, tick, active >>
  /\ UNCHANGED << digestVars, jobVars, backupVars, twoJobVars, startVars >>

Sampled(src, failed, payload) ==
  [src |-> src, failed |-> failed, payload |-> payload]

\* a loop that polls whether or not anybody listens
RunCheckAlwaysPolls ==
  /\ ppc = "check" /\ running /\ lock = "free"
  /\ has_clients' = (Len(clients) > 0)
  /\ ppc' = "stats"
  /\ tick' = NoTick
  /\ active' = IF Len(clients) > 0 THEN [active EXCEPT !.all = @ + 1] ELSE active
  /\ UNCHANGED << event, after, health_counter, now >>
  /\ UNCHANGED digestVars
  /\ RunFrame

\* _run, lines 279-284: while self.running; has_clients is read under the
\* lock; with no client the tick goes straight to the sleep
RunCheck ==
  /\ ppc = "check" /\ running /\ lock = "free"
  /\ has_clients' = (Len(clients) > 0)
  /\ ppc' = IF Len(clients) > 0 THEN "stats" ELSE "sleep"
  /\ tick' = NoTick
  /\ active' = IF Len(clients) > 0 THEN [active EXCEPT !.all = @ + 1] ELSE active
  /\ UNCHANGED << event, after, health_counter, now >>
  /\ UNCHANGED digestVars
  /\ RunFrame

\* _run, lines 286-288: the stats are read from the databases, which hold
\* anything by now or fail, and are broadcast if their digest is new
RunStats ==
  /\ ppc = "stats"
  /\ \E total \in 0..MaxVal, ok \in BOOLEAN :
       /\ DataChanged("stats", StatsPayload(ok, total, now))
       /\ tick' = [tick EXCEPT
                     !.sampled = Append(@, Sampled("stats", ~ok, call'.data)),
                     !.events = IF call'.ret THEN Append(@, "stats") ELSE @]
       /\ IF call'.ret
          THEN CallBroadcast("stats", "health")
          ELSE /\ ppc' = "health"
               /\ UNCHANGED << event, after >>
  /\ UNCHANGED << reordered, has_clients, health_counter, now, active >>
  /\ RunFrame

\* a loop that an exception of the stats step ends
RunStatsRaisesStops ==
  /\ ppc = "stats"
  /\ tick' = [tick EXCEPT
                !.sampled = Append(@, Sampled("stats", FALSE,
                                              StatsPayload(TRUE, 0, now))),
                !.raised = TRUE]
  /\ ppc' = "stopped"
  /\ UNCHANGED << event, after, has_clients, health_counter, now, active >>
  /\ UNCHANGED digestVars
  /\ RunFrame

\* _run, lines 286-287 and 303-304: the stats read hold a value json.dumps
\* cannot write (a BLOB in a text column), _data_changed raises before it
\* stores a digest, and the exception is caught at the end of the tick
RunStatsRaises ==
  /\ ppc = "stats"
  /\ tick' = [tick EXCEPT
                !.sampled = Append(@, Sampled("stats", FALSE,
                                              StatsPayload(TRUE, 0, now))),
                !.raised = TRUE]
  /\ ppc' = "sleep"
  /\ UNCHANGED << event, after, has_clients, health_counter, now, active >>
  /\ UNCHANGED digestVars
  /\ RunFrame

\* a loop that reads the health one tick late
RunHealthOffByOne ==
  /\ ppc = "health"
  /\ IF health_counter + 1 > HEALTH_EVERY
     THEN /\ health_counter' = 0
          /\ \E daemons \in 0..MaxVal, ok \in BOOLEAN :
               /\ DataChanged("health",
                              HealthPayload(IF ok THEN daemons ELSE 0, now))
               /\ tick' = [tick EXCEPT
                     !.sampled = Append(@, Sampled("health", ~ok, call'.data)),
                     !.events = IF call'.ret THEN Append(@, "health") ELSE @]
          /\ IF call'.ret
             THEN CallBroadcast("health", "velocity")
             ELSE ppc' = "velocity" /\ UNCHANGED << event, after >>
     ELSE /\ health_counter' = health_counter + 1
          /\ ppc' = "heartbeat"
          /\ UNCHANGED << event, after, digestVars, tick >>
  /\ active' = [active EXCEPT !.counted = @ + 1]
  /\ UNCHANGED << reordered, has_clients, now >>
  /\ RunFrame

\* _run, lines 291-296: every fifth tick with clients the health is read,
\* the count of daemons or 0 if launchctl fails, and broadcast if its digest
\* is new
RunHealth ==
  /\ ppc = "health"
  /\ IF health_counter + 1 >= HEALTH_EVERY
     THEN /\ health_counter' = 0
          /\ \E daemons \in 0..MaxVal, ok \in BOOLEAN :
               /\ DataChanged("health",
                              HealthPayload(IF ok THEN daemons ELSE 0, now))
               /\ tick' = [tick EXCEPT
                     !.sampled = Append(@, Sampled("health", ~ok, call'.data)),
                     !.events = IF call'.ret THEN Append(@, "health") ELSE @]
          /\ IF call'.ret
             THEN CallBroadcast("health", "velocity")
             ELSE ppc' = "velocity" /\ UNCHANGED << event, after >>
     ELSE /\ health_counter' = health_counter + 1
          /\ ppc' = "heartbeat"
          /\ UNCHANGED << event, after, digestVars, tick >>
  /\ active' = [active EXCEPT !.counted = @ + 1]
  /\ UNCHANGED << reordered, has_clients, now >>
  /\ RunFrame

\* _run, lines 297-299
RunVelocity ==
  /\ ppc = "velocity"
  /\ \E ok \in BOOLEAN :
       /\ DataChanged("velocity", VelocityPayload(ok, now))
       /\ tick' = [tick EXCEPT
                     !.sampled = Append(@, Sampled("velocity", ~ok, call'.data)),
                     !.events = IF call'.ret THEN Append(@, "velocity") ELSE @]
  /\ IF call'.ret
     THEN CallBroadcast("velocity", "heartbeat")
     ELSE ppc' = "heartbeat" /\ UNCHANGED << event, after >>
  /\ UNCHANGED << reordered, has_clients, health_counter, now, active >>
  /\ RunFrame

\* _run, lines 297-298 and 303-304: the velocity read holds a value
\* json.dumps cannot write, and _data_changed raises
RunVelocityRaises ==
  /\ ppc = "velocity"
  /\ tick' = [tick EXCEPT
                !.sampled = Append(@, Sampled("velocity", FALSE,
                                              VelocityPayload(TRUE, now))),
                !.raised = TRUE]
  /\ ppc' = "sleep"
  /\ UNCHANGED << event, after, has_clients, health_counter, now, active >>
  /\ UNCHANGED digestVars
  /\ RunFrame

\* a loop that sends no heartbeat
RunHeartbeatSkips ==
  /\ ppc = "heartbeat"
  /\ ppc' = "sleep"
  /\ UNCHANGED << event, after, has_clients, health_counter, now, active, tick >>
  /\ UNCHANGED digestVars
  /\ RunFrame

\* _run, line 302
RunHeartbeat ==
  /\ ppc = "heartbeat"
  /\ CallBroadcast("heartbeat", "sleep")
  /\ tick' = [tick EXCEPT !.events = Append(@, "heartbeat")]
  /\ UNCHANGED << has_clients, health_counter, now, active >>
  /\ UNCHANGED digestVars
  /\ RunFrame

\* _run, line 306: time.sleep(3)
RunSleep ==
  /\ ppc = "sleep"
  /\ now < MaxTicks
  /\ now' = now + 1
  /\ ppc' = "check"
  /\ tick' = NoTick
  /\ UNCHANGED << event, after, has_clients, health_counter, active >>
  /\ UNCHANGED digestVars
  /\ RunFrame

\* connections are numbered in the order in which they arrive
Arrives(h) == \A g \in DOMAIN hpc : g < h => hpc[g] # "new"

ServeFrame ==
  /\ UNCHANGED << bseq, ppc, event, after, bidx, dead, api, running,
                  has_clients, health_counter, now, tick, active >>
  /\ UNCHANGED << digestVars, jobVars, backupVars, twoJobVars, startVars >>

\* a handler that registers its sink before it writes the initial snapshot
ServeInitialRegistersFirst(h) ==
  /\ hpc[h] = "new" /\ ppc # "off" /\ Arrives(h)
  /\ AddClient(h)
  /\ hpc' = [hpc EXCEPT ![h] = "initial"]
  /\ UNCHANGED << lock, broken, first, last_seq >>
  /\ ServeFrame

\* a handler that passes its initial snapshot through _data_changed
ServeInitialChecksDigest(h) ==
  /\ hpc[h] = "new" /\ ppc # "off" /\ Arrives(h)
  /\ \E total \in 0..MaxVal :
       DataChanged("stats", StatsPayload(TRUE, total, now))
  /\ first' = [first EXCEPT ![h] = IF @ = "none" THEN "initial" ELSE @]
  /\ hpc' = [hpc EXCEPT ![h] = "add"]
  /\ UNCHANGED << clients, lock, expected, last_seq, broken, reordered >>
  /\ UNCHANGED << bseq, ppc, event, after, bidx, dead, api, running,
                  has_clients, health_counter, now, tick, active >>

\* serve_sse, lines 776-789: the headers and the initial stats snapshot are
\* written; if the write raises the handler returns
ServeInitial(h) ==
  /\ hpc[h] = "new" /\ ppc # "off" /\ Arrives(h)
  /\ \/ /\ first' = [first EXCEPT ![h] = IF @ = "none" THEN "initial" ELSE @]
        /\ hpc' = [hpc EXCEPT ![h] = "add"]
        /\ UNCHANGED broken
     \/ /\ broken' = [broken EXCEPT ![h] = TRUE]
        /\ hpc' = [hpc EXCEPT ![h] = "done"]
        /\ UNCHANGED first
  /\ UNCHANGED << clients, lock, expected, last_seq >>
  /\ ServeFrame

\* serve_sse, line 792: streamer.add_client(self.wfile)
ServeAdd(h) ==
  /\ hpc[h] = "add"
  /\ AddClient(h)
  /\ hpc' = [hpc EXCEPT ![h] = "loop"]
  /\ UNCHANGED << lock, broken, first, last_seq >>
  /\ ServeFrame

\* a handler that returns from its loop without the finally clause
ServeKeepaliveReturns(h) ==
  /\ hpc[h] = "loop"
  /\ \/ /\ ~broken[h]
        /\ UNCHANGED << hpc, broken >>
     \/ /\ broken' = [broken EXCEPT ![h] = TRUE]
        /\ hpc' = [hpc EXCEPT ![h] = "done"]
  /\ UNCHANGED << clients, lock, expected, first, last_seq >>
  /\ ServeFrame

\* a handler that goes on after a keepalive write that raised
ServeKeepaliveIgnoresFailure(h) ==
  /\ hpc[h] = "loop"
  /\ \/ /\ ~broken[h]
        /\ UNCHANGED << hpc, broken >>
     \/ /\ ~broken[h]
        /\ broken' = [broken EXCEPT ![h] = TRUE]
        /\ UNCHANGED hpc
  /\ UNCHANGED << clients, lock, expected, first, last_seq >>
  /\ ServeFrame

\* serve_sse, lines 796-802: every second a keepalive comment is written; the
\* loop ends when the write raises
ServeKeepalive(h) ==
  /\ hpc[h] = "loop"
  /\ \/ /\ ~broken[h]
        /\ UNCHANGED << hpc, broken >>
     \/ /\ broken' = [broken EXCEPT ![h] = TRUE]
        /\ hpc' = [hpc EXCEPT ![h] = "remove"]
  /\ UNCHANGED << clients, lock, expected, first, last_seq >>
  /\ ServeFrame

\* serve_sse, line 805: finally streamer.remove_client(self.wfile); the
\* handler returns and the connection is closed
ServeRemove(h) ==
  /\ hpc[h] = "remove"
  /\ RemoveClient(h)
  /\ hpc' = [hpc EXCEPT ![h] = "done"]
  /\ last_seq' = [last_seq EXCEPT ![h] = 0]
  /\ UNCHANGED << lock, broken, first >>
  /\ ServeFrame

NextStream ==
  \/ StartStreamer
  \/ RunCheck
  \/ RunStats
  \/ RunHealth
  \/ RunVelocity
  \/ RunHeartbeat
  \/ RunSleep
  \/ BcAcquire
  \/ BcWrite
  \/ BcFinish
  \/ \E h \in DOMAIN hpc : ServeInitial(h)
  \/ \E h \in DOMAIN hpc : ServeAdd(h)
  \/ \E h \in DOMAIN hpc : ServeKeepalive(h)
  \/ \E h \in DOMAIN hpc : ServeRemove(h)

SpecStream == InitStream /\ [][NextStream]_vars

\* C12 (as claimed): on a tick with clients whose stats hold the values of
\* the stats published last, no 'stats' event is broadcast.
C12_NoRebroadcastWhenUnchanged ==
  [][ ( /\ ppc = "stats" /\ ppc' # "stats"
        /\ call.key = "stats" /\ call.ret
        /\ HasKey(call.data, "totalSessions")
        /\ HasKey(call'.data, "totalSessions")
        /\ ValueAt(call'.data, "totalSessions") = ValueAt(call.data, "totalSessions") )
        => ~(ppc' = "bc" /\ event' = "stats")
    ]_vars

\* C14 (as claimed): no write to a sink happens while broadcast holds the
\* registry lock.
C14_NoWriteUnderLock ==
  (ppc = "bc_write" /\ bidx <= Len(clients)) => lock = "free"

\* C15: whatever the interleaving of the handlers' add_client and
\* remove_client calls and the loop's broadcast calls, the registry holds,
\* once each, exactly the sinks added and not removed since by remove_client
\* or by a broadcast whose write to them raised: a connection in its
\* keepalive loop on which no write has raised is registered, and a
\* connection that has not called add_client, or has returned, is not.
C15_NoLostRegistration ==
  /\ SetOf(clients) = expected
  /\ Len(clients) = Cardinality(expected)
  /\ \A h \in DOMAIN hpc :
       /\ (hpc[h] = "loop" /\ ~broken[h]) => h \in SetOf(clients)
       /\ hpc[h] \in {"new", "add", "done"} => h \notin SetOf(clients)

\* the connection that arrived second was registered first, broadcasts have
\* been made, and both sinks are registered
C15_Witness ==
  /\ clients = << 2, 1 >>
  /\ bseq > 1
  /\ lock = "free"
  /\ last_seq[1] = bseq /\ last_seq[2] = bseq

\* C17: a sink enters the registry only by the add_client call of its own
\* handler, which a handler makes once; a broadcast leaves no sink whose
\* write raised in the registry; and a broadcast frame is written only to a
\* sink that is registered.  So a sink removed after a failed write stays out
\* of the registry and receives no further broadcast frame.
C17_RemovedStaysRemoved ==
  [][ \A w \in DOMAIN hpc :
        /\ (w \notin SetOf(clients) /\ w \in SetOf(clients'))
             => (hpc[w] = "add" /\ hpc'[w] = "loop")
        /\ (hpc[w] # "add" /\ hpc'[w] = "add") => hpc[w] = "new"
        /\ (lock = "broadcast" /\ lock' = "free" /\ w \in SetOf(dead))
             => w \notin SetOf(clients')
        /\ (last_seq'[w] # last_seq[w] /\ last_seq'[w] # 0)
             => w \in SetOf(clients)
    ]_vars

\* a sink was removed by a broadcast whose write to it raised, its handler
\* still loops, and another sink has received the frames of later calls
C17_Witness ==
  \E w, g \in DOMAIN hpc :
     /\ hpc[w] = "loop" /\ broken[w] /\ w \notin SetOf(clients)
     /\ lock = "free"
     /\ g \in SetOf(clients)
     /\ last_seq[w] > 0
     /\ last_seq[g] >= last_seq[w] + 2

\* C18: broadcast calls are made one after the other, a new one only after
\* the one before it has returned, and every frame a sink receives is the
\* frame of the call in progress, later than the call of any frame the sink
\* holds: each sink receives the frames in the order of the calls, and so
\* all sinks see the frames they share in one order.
C18_FramesInCallOrder ==
  [][ /\ bseq' # bseq
        => /\ bseq' = bseq + 1
           /\ ppc = "bc" /\ lock = "free" /\ bidx = 0
      /\ \A w \in DOMAIN hpc :
           (last_seq'[w] # last_seq[w] /\ last_seq'[w] # 0)
             => /\ ppc = "bc_write" /\ lock = "broadcast"
                /\ last_seq'[w] = bseq
                /\ last_seq[w] < bseq
    ]_vars

\* both sinks hold the frame of the third call or a later one, and each has
\* received the frames of all the calls since it was registered
C18_Witness ==
  /\ Len(clients) = 2
  /\ lock = "free"
  /\ bseq >= 3
  /\ \A w \in DOMAIN hpc : last_seq[w] = bseq /\ ~broken[w]

\* C19: the first frame written to the sink of a connection is the initial
\* stats snapshot its handler writes; a sink is in the registry, or has
\* received a broadcast frame, only if that write went through, and the sink
\* of a handler whose initial write raised is never registered.
C19_InitialSnapshotFirst ==
  \A h \in DOMAIN hpc :
     /\ first[h] # "broadcast"
     /\ (h \in SetOf(clients) \/ h \in expected \/ last_seq[h] > 0)
          => first[h] = "initial"
     /\ hpc[h] \in {"add", "loop", "remove"} => first[h] = "initial"
     /\ (hpc[h] = "done" /\ first[h] = "none")
          => (broken[h] /\ h \notin SetOf(clients) /\ last_seq[h] = 0)

\* the initial write of one connection raised and its handler returned; the
\* other connection got its snapshot, was registered and received a frame
C19_Witness ==
  \E h, g \in DOMAIN hpc :
     /\ hpc[h] = "done" /\ first[h] = "none" /\ broken[h]
     /\ g \in SetOf(clients) /\ first[g] = "initial" /\ last_seq[g] > 0

\* C20: a tick that finds the registry empty goes from the check to the
\* sleep and back: no source is read, no digest is stored, no broadcast call
\* is made, no frame is written and health_counter keeps its value.
C20_IdleTickDoesNothing ==
  [][ /\ (ppc = "check" /\ ppc' # "check" /\ clients = << >>)
        => /\ ppc' = "sleep"
           /\ ~has_clients'
           /\ UNCHANGED << last_hash, call, health_counter, bseq, last_seq,
                           first, event, after, clients >>
      /\ (ppc = "sleep" /\ ppc' # "sleep")
        => /\ ppc' = "check"
           /\ UNCHANGED << last_hash, call, health_counter, bseq, last_seq,
                           first, event, after, clients, has_clients >>
    ]_vars

\* after a tick with a client, a tick found the registry empty and is at its
\* sleep
C20_Witness ==
  /\ ppc = "sleep" /\ ~has_clients
  /\ now > 0
  /\ health_counter > 0 /\ health_counter < HEALTH_EVERY - 1
  /\ bseq > 0
  /\ "stats" \in DOMAIN last_hash

SourcesOf(t) == [i \in DOMAIN t.sampled |-> t.sampled[i].src]
CountOf(list, x) == Cardinality({ i \in DOMAIN list : list[i] = x })
EveryFifth(n) == n % HEALTH_EVERY = 0

\* the tick of _run has come to its sleep after it found a client
ActiveTickDone == ppc = "sleep" /\ has_clients

RunThread ==
  \/ StartStreamer
  \/ RunCheck
  \/ RunStats
  \/ RunStatsRaises
  \/ RunHealth
  \/ RunVelocity
  \/ RunVelocityRaises
  \/ RunHeartbeat
  \/ RunSleep
  \/ BcAcquire
  \/ BcWrite
  \/ BcFinish

\* the server when the rows it reads may hold a value json.dumps cannot
\* write, so that _data_changed may raise inside a tick
NextLoop ==
  \/ NextStream
  \/ RunStatsRaises
  \/ RunVelocityRaises

\* the server with one connection
InitLoop ==
  /\ FreshServer \/ WarmServer
  /\ SinksNew({1})
  /\ NoJob
  /\ NoBackup
  /\ NoTwoJobs
  /\ NoStart

\* the thread of _run is a daemon thread the scheduler keeps running: its
\* sleep returns, and the lock it waits for is released by the handlers
SpecLoop == InitLoop /\ [][NextLoop]_vars /\ WF_vars(RunThread)

\* C23: an exception raised inside a tick does not end the loop: after a
\* tick that raised, the loop sleeps and the check of the next tick is
\* executed (for every tick but the last one of the model).
C23_LoopSurvivesFailingTick ==
  \A n \in 0..(MaxTicks - 1) :
     (tick.raised /\ now = n) ~> (now = n + 1 /\ tick = NoTick /\ ppc # "check")

\* the tick before this one raised in its stats step, and this tick has made
\* its check and is about to read the stats
C23_Witness ==
  /\ ppc = "stats" /\ now > 0
  /\ tick = NoTick
  /\ active.all >= active.counted + 2

\* C24 (as claimed): whenever the data source of a snapshot source failed,
\* the payload it returned holds an 'error' field.
C24_FailureYieldsErrorField ==
  \A i \in DOMAIN tick.sampled :
     tick.sampled[i].failed => HasKey(tick.sampled[i].payload, "error")

\* C26: the digest map is read and written only inside _data_changed, and
\* every call of _data_changed is a step of the one thread that runs _run,
\* made between its check and its sleep; no step of a connection handler
\* touches the map, so no two threads are ever inside the map together.
C26_DigestMapSingleThread ==
  [][ (last_hash' # last_hash \/ call' # call)
        => /\ hpc' = hpc
           /\ ppc \in {"stats", "health", "velocity"}
           /\ ppc' # ppc
           /\ running
    ]_vars

\* the loop has stored the digest of the stats while one handler is between
\* its snapshot and its add_client and the other is in its keepalive loop
C26_Witness ==
  /\ call.key = "stats" /\ call.ret
  /\ "stats" \in DOMAIN last_hash
  /\ \E h, g \in DOMAIN hpc : hpc[h] = "add" /\ hpc[g] = "loop"

\* ------------------------------------------------ ccc-backup.py: rotation
\* A file name claude-db-<timestamp>.db is modelled by its timestamp: the
\* backups that were in the directory before the first call carry the
\* names -MaxOld..-1, a backup made at second n carries the name n.
OldNames == (0 - MaxOld)..(-1)

\* every order in which the files of d can be listed
Orderings(d) ==
  { s \in [1..Cardinality(DOMAIN d) -> DOMAIN d] :
      \A i, j \in DOMAIN s : i # j => s[i] # s[j] }

\* sorted(dest_dir.glob("claude-db-*.db"), key=st_mtime, reverse=True): the
\* sort is stable and glob lists the directory in no specified order, so
\* files of equal st_mtime come in any order
SortedByMtime(d) ==
  { s \in Orderings(d) : \A i \in 1..(Len(s) - 1) : d[s[i]] >= d[s[i + 1]] }

\* backup_database(src, dest_dir, keep), lines 31-49: the backup is written
\* to claude-db-<timestamp>.db, over a file of that name if there is one;
\* then every file after the first keep of the sorted listing is unlinked
BackupDatabase(keep) ==
  LET backup_path == timestamp
      written == [f \in DOMAIN dest_dir \cup {backup_path} |->
                    IF f = backup_path THEN fs_clock ELSE dest_dir[f]]
  IN  \E backups \in SortedByMtime(written) :
        LET kept == { backups[i] : i \in 1..Min(keep, Len(backups)) }
        IN  /\ dest_dir' = [f \in kept |-> written[f]]
            /\ backed' = [called |-> TRUE, keep |-> keep,
                          path |-> backup_path, listed |-> written]
            /\ UNCHANGED << timestamp, fs_clock >>
            /\ UNCHANGED << jobVars, streamerVars, twoJobVars, startVars >>

\* the wall clock passes a second boundary: the next backup gets a new name
SecondPasses ==
  /\ timestamp < MaxSeconds
  /\ timestamp' = timestamp + 1
  /\ UNCHANGED << dest_dir, fs_clock, backed, jobVars, streamerVars,
                  twoJobVars, startVars >>

\* the time stamp the file system gives to written files moves on
StampAdvances ==
  /\ fs_clock < MaxOld + MaxStamp
  /\ fs_clock' = fs_clock + 1
  /\ UNCHANGED << dest_dir, timestamp, backed, jobVars, streamerVars,
                  twoJobVars, startVars >>

\* any set of backups made earlier, each modified before the first call
InitBackup ==
  /\ StreamerNew /\ SinksNew({}) /\ ppc = "off"
  /\ NoJob
  /\ NoTwoJobs
  /\ NoStart
  /\ timestamp = 0
  /\ fs_clock = MaxOld
  /\ \E names \in SUBSET OldNames : dest_dir \in [names -> 0..(MaxOld - 1)]
  /\ backed = NoBackupCall

NextBackup ==
  \/ \E keep \in 0..MaxKeep : BackupDatabase(keep)
  \/ SecondPasses
  \/ StampAdvances

SpecBackup == InitBackup /\ [][NextBackup]_vars

\* C25 (as claimed): after backup_database returns, the directory holds at
\* most keep backups, no removed backup was modified later than a backup
\* that was kept, and for keep >= 1 the backup just made is among them.
C25_RotationKeepsNewest ==
  backed.called =>
    LET all == DOMAIN backed.listed
        kept == DOMAIN dest_dir
    IN  /\ Cardinality(kept) <= backed.keep
        /\ \A f \in kept, g \in all \ kept :
              backed.listed[f] >= backed.listed[g]
        /\ backed.keep >= 1 => backed.path \in kept

\* the two parts of C25 that the rotation does keep
C25_AtMostKeepMostRecent ==
  backed.called =>
    LET all == DOMAIN backed.listed
        kept == DOMAIN dest_dir
    IN  /\ Cardinality(kept) = Min(backed.keep, Cardinality(all))
        /\ \A f \in kept, g \in all \ kept :
              backed.listed[f] >= backed.listed[g]

\* ------------------------------------- the segmenter on any event sequence
\* every sequence of at most MaxEvents timestamps, sorted or not
EventSequences ==
  UNION { [1..n -> 0..MaxTs] : n \in 0..MaxEvents }

\* the for loop of compute_streaks (lines 52-106) about to start on rows
InitSegment ==
  /\ tool_events = [t \in {} |-> 0]
  /\ sessions = << >>
  /\ autonomy_streaks = << >>
  /\ gap_threshold \in 0..MaxGap
  /\ min_duration \in (0 - 1)..MaxDur
  /\ pc = "loop"
  /\ rows \in EventSequences
  /\ idx = 1
  /\ run_start = NoneTs /\ run_end = NoneTs /\ run_tools = 0
  /\ streaks = << >>
  /\ k = 0 /\ txn = << >> /\ err = "none"
  /\ runs = 1
  /\ table_before = << >>
  /\ history = << >>
  /\ StreamerInit

NextSegment == LoopStep \/ LastRun

SpecSegment == InitSegment /\ [][NextSegment]_vars

\* the last streak of ss is the run (start, end, n)
ClosedAs(ss, start, end, n) ==
  /\ ss # << >>
  /\ ss[Len(ss)].start_ts = start
  /\ ss[Len(ss)].end_ts = end
  /\ ss[Len(ss)].tool_count = n

\* C27: in the loop, an event with a timestamp lower than the end of the
\* current run closes the run (it is emitted with its old bounds iff its
\* duration reaches min_duration) and opens a new run of that one event; an
\* event with the timestamp of the run's end is appended to the run and
\* emits nothing.
C27_NegativeGapBreaksZeroGapContinues ==
  [][ (pc = "loop" /\ idx <= Len(rows) /\ run_start # NoneTs) =>
        LET ts == rows[idx] IN
        /\ ts < run_end =>
             /\ run_start' = ts /\ run_end' = ts /\ run_tools' = 1
             /\ IF run_end - run_start >= min_duration
                THEN /\ Len(streaks') = Len(streaks) + 1
                     /\ SubSeq(streaks', 1, Len(streaks)) = streaks
                     /\ ClosedAs(streaks', run_start, run_end, run_tools)
                ELSE streaks' = streaks
        /\ ts = run_end =>
             /\ run_start' = run_start /\ run_end' = ts
             /\ run_tools' = run_tools + 1
             /\ streaks' = streaks
    ]_vars

\* an event lower than the end of a run of two equal timestamps has closed
\* that run and opened a new one
C27_Witness ==
  /\ pc = "loop" /\ idx = 4
  /\ rows[1] = rows[2] /\ rows[3] < rows[2]
  /\ ClosedAs(streaks, rows[1], rows[2], 2)
  /\ run_start = rows[3] /\ run_end = rows[3] /\ run_tools = 1

\* C28: every streak compute_streaks emits has end_ts >= start_ts,
\* duration_seconds = end_ts - start_ts >= 0 and tool_count >= 1, whatever
\* the order of the input sequence.
C28_StreaksWellFormed ==
  \A i \in DOMAIN streaks :
     /\ streaks[i].end_ts >= streaks[i].start_ts
     /\ streaks[i].duration_seconds = streaks[i].end_ts - streaks[i].start_ts
     /\ streaks[i].duration_seconds >= 0
     /\ streaks[i].tool_count >= 1

\* the loop is over an unsorted sequence and has emitted two streaks
C28_Witness ==
  /\ pc = "sort"
  /\ Len(streaks) >= 2
  /\ \E i \in 1..(Len(rows) - 1) : rows[i + 1] < rows[i]
  /\ min_duration < 0

\* ------------------------------------ the lookups of the longest streaks
\* the numbers of streaks the loop may have found: none, one, and just
\* below, at and above the TOP_K of line 112
StreakCounts ==
  {0, 1, TOP_K - 1, TOP_K} \cup { TOP_K + n : n \in 1..MaxExtra }

Shapes == {"equal", "rising", "cyclic"}

DurationOf(shape, i) ==
  CASE shape = "equal" -> MaxDur
    [] shape = "rising" -> i
    [] shape = "cyclic" -> i % (MaxDur + 2)

\* the list the loop leaves: n streaks in the order of their start
FoundStreaks(n, shape) ==
  [i \in 1..n |->
     MakeStreak(100 * i, 100 * i + DurationOf(shape, i), 2)]

\* one session that ended before every streak, and more open sessions than
\* one lookup returns
ManySessions ==
  << [id |-> "s0", started_at |-> 0, ended_at |-> 0] >>
  \o [i \in 1..(SESSION_LIMIT + 1) |->
        [id |-> "s" \o ToString(i), started_at |-> 0, ended_at |-> NullTs]]

\* compute_streaks at line 111: the loop is over and has found the streaks
InitTopK ==
  /\ tool_events = [t \in {} |-> 0]
  /\ sessions \in {<< >>, << OpenSession >>, ManySessions}
  /\ autonomy_streaks \in OldTables
  /\ gap_threshold = 0
  /\ min_duration = 0
  /\ pc = "sort"
  /\ rows = << >>
  /\ idx = 1
  /\ run_start = NoneTs /\ run_end = NoneTs /\ run_tools = 0
  /\ \E n \in StreakCounts, shape \in Shapes : streaks = FoundStreaks(n, shape)
  /\ k = 0 /\ txn = << >> /\ err = "none"
  /\ runs = 1
  /\ table_before = autonomy_streaks
  /\ history = << >>
  /\ StreamerInit

NextTopK ==
  \/ SortStreaks
  \/ ResolveSession
  \/ ResolveFails
  \/ Delete
  \/ DeleteFails
  \/ Insert
  \/ InsertFails
  \/ Commit
  \/ CommitFails

SpecTopK == InitTopK /\ [][NextTopK]_vars

Resolved == { i \in DOMAIN streaks : streaks[i].resolved }

\* C29: once the lookups are over, session_ids have been resolved for
\* min(50, number of streaks) streaks, none of the others has a larger
\* duration than a resolved one, every resolved list holds at most 5 ids,
\* and the committed table holds the resolved list for each resolved streak
\* and the empty list for every other streak.
C29_TopKResolved ==
  pc \in {"insert", "done"} =>
    /\ Cardinality(Resolved) = Min(TOP_K, Len(streaks))
    /\ \A i \in Resolved, j \in DOMAIN streaks \ Resolved :
          streaks[i].duration_seconds >= streaks[j].duration_seconds
    /\ \A i \in Resolved : Len(streaks[i].session_ids) <= SESSION_LIMIT
    /\ pc = "done" =>
         /\ Len(autonomy_streaks) = Len(streaks)
         /\ \A i \in DOMAIN streaks :
               autonomy_streaks[i].session_ids =
                 IF i \in Resolved THEN streaks[i].session_ids ELSE << >>

\* a committed run with more than 50 streaks of different durations and more
\* than 5 matching sessions: a resolved streak with 5 ids, another with none
C29_Witness ==
  /\ pc = "done"
  /\ Len(streaks) > TOP_K
  /\ Len(SelectIds(sessions, streaks[1].start_ts)) > SESSION_LIMIT
  /\ Len(autonomy_streaks[1].session_ids) = SESSION_LIMIT
  /\ autonomy_streaks[Len(streaks)].session_ids = << >>
  /\ streaks[1].duration_seconds > streaks[Len(streaks)].duration_seconds

\* -------------------------- the registry when a sink is added once more
\* streamer.add_client(w) for a sink that is registered already: line 86
\* appends whatever the list holds
ApiAddClientAgain ==
  \E w \in SetOf(clients) :
     /\ ppc = "api"
     /\ Len(clients) - Cardinality(SetOf(clients)) < MaxDup
     /\ AddClient(w)
     /\ api' = [op |-> "add", w |-> w, again |-> TRUE]
     /\ UNCHANGED << ppc, event, after >>
     /\ ApiFrame

NextRegistryDup ==
  \/ ApiAddClient
  \/ ApiAddClientAgain
  \/ ApiRemoveClient
  \/ ApiBroadcast
  \/ BcAcquire
  \/ BcWrite
  \/ BcFinish

SpecRegistryDup == InitRegistry /\ [][NextRegistryDup]_vars

\* C30 (as claimed): after any add_client, remove_client and broadcast
\* calls, add_client of a registered sink included, the registry holds each
\* sink at most once, and the loop of a broadcast meets no sink twice.
C30_RegistryIsSet ==
  /\ Len(clients) = Cardinality(SetOf(clients))
  /\ ppc = "bc_write" =>
       \A i, j \in 1..(bidx - 1) : i # j => clients[i] # clients[j]

\* ------------------------------------------- the handlers and the registry
\* C32 (as claimed): a handler in its keepalive loop has its sink in the
\* registry.
C32_LoopingHandlerIsRegistered ==
  \A h \in DOMAIN hpc : hpc[h] = "loop" => h \in SetOf(clients)

\* C32 (amended): a handler in its keepalive loop has its sink in the
\* registry unless a write to the sink has raised; the connection of such a
\* sink is gone, so the handler's next keepalive raises and ends the loop.  No
\* handler of a live connection loops unregistered.
C32_LoopingUnregisteredIsDead ==
  \A h \in DOMAIN hpc :
     (hpc[h] = "loop" /\ h \notin SetOf(clients))
       => /\ broken[h]
          /\ first[h] = "initial"
          /\ h \notin expected

\* a broadcast has removed the sink of a handler that is still in its loop,
\* and the poll loop has gone on to its sleep
C32_Witness ==
  \E h \in DOMAIN hpc :
     /\ hpc[h] = "loop" /\ h \notin SetOf(clients) /\ broken[h]
     /\ ppc = "sleep" /\ has_clients

\* C33: no sink leaks.  Every sink in the registry, once, is the sink of a
\* handler that has called add_client and has not returned, so the registry
\* is no longer than the number of such handlers; the sink of a handler that
\* has returned is not in the registry.
C33_NoSinkLeak ==
  LET live == { h \in DOMAIN hpc : hpc[h] \in {"loop", "remove"} }
  IN  /\ SetOf(clients) \subseteq live
      /\ Len(clients) = Cardinality(SetOf(clients))
      /\ Len(clients) <= Cardinality(live)
      /\ \A h \in DOMAIN hpc : hpc[h] = "done" => h \notin SetOf(clients)

\* a handler that had registered its sink has returned after a keepalive
\* raised, while the sink of the other connection is registered
C33_Witness ==
  \E h, g \in DOMAIN hpc :
     /\ hpc[h] = "done" /\ first[h] = "initial" /\ broken[h]
     /\ hpc[g] = "loop" /\ clients = << g >>
     /\ lock = "free"

\* ------------------------------------------------- events and tool counts
RECURSIVE SumToolCount(_)
SumToolCount(ss) ==
  IF ss = << >> THEN 0 ELSE Head(ss).tool_count + SumToolCount(Tail(ss))

\* C37: no event is counted in two streaks.  While the loop runs, the
\* tool_count of the streaks emitted so far and the length of the open run
\* add up to at most the number of events read, and to exactly that number
\* when min_duration is 0; when the loop is over, the tool_count of all
\* streaks add up to at most the number of input events, and to exactly that
\* number when min_duration is 0.
C37_ToolCountsAddUp ==
  LET open == IF run_start = NoneTs THEN 0 ELSE run_tools
      read == IF pc = "loop" THEN idx - 1 ELSE Len(rows)
      counted == SumToolCount(streaks) + (IF pc = "loop" THEN open ELSE 0)
  IN  /\ counted <= read
      /\ min_duration = 0 => counted = read

\* the loop is over: with min_duration 0 it has emitted a streak of one event
\* and a streak of several, which hold all the events between them
C37_Witness ==
  /\ pc = "sort" /\ min_duration = 0
  /\ Len(rows) = MaxEvents
  /\ Len(streaks) = 2
  /\ streaks[1].tool_count = 1 /\ streaks[2].tool_count = MaxEvents - 1

\* ------------------------------------ writes to a sink, begun and finished
\* broadcast, line 99: client.write(encoded) is called for the next client,
\* with the lock held
BcWriteBegin ==
  /\ ppc = "bc_write" /\ bidx <= Len(clients)
  /\ ppc' = "bc_writing"
  /\ UNCHANGED << clients, lock, broken, last_seq, bseq, event, after, bidx,
                  dead, expected, api, first >>
  /\ UNCHANGED << running, hpc, has_clients, health_counter, now, tick, active >>
  /\ UNCHANGED << digestVars, jobVars, backupVars, twoJobVars, startVars >>

\* broadcast, lines 99-102: the write and the flush return, or raise and the
\* client is appended to dead
BcWriteEnd ==
  /\ ppc = "bc_writing"
  /\ LET w == clients[bidx]
     IN \/ /\ ~broken[w]
           /\ last_seq' = [last_seq EXCEPT ![w] = bseq]
           /\ first' = [first EXCEPT ![w] = IF @ = "none" THEN "broadcast" ELSE @]
           /\ UNCHANGED << broken, dead >>
        \/ /\ broken' = [broken EXCEPT ![w] = TRUE]
           /\ dead' = Append(dead, w)
           /\ UNCHANGED << last_seq, first >>
  /\ bidx' = bidx + 1
  /\ ppc' = "bc_write"
  /\ UNCHANGED << clients, lock, bseq, event, after, expected, api >>
  /\ UNCHANGED << running, hpc, has_clients, health_counter, now, tick, active >>
  /\ UNCHANGED << digestVars, jobVars, backupVars, twoJobVars, startVars >>

\* serve_sse, line 798: after the sleep, self.wfile.write(b": keepalive\n\n")
\* is called; the handler holds no lock
KeepaliveBegin(h) ==
  /\ hpc[h] = "loop"
  /\ hpc' = [hpc EXCEPT ![h] = "keepalive"]
  /\ UNCHANGED << clients, lock, expected, first, last_seq, broken >>
  /\ ServeFrame

\* serve_sse, lines 798-802: the write and the flush return, or raise and the
\* loop ends
KeepaliveEnd(h) ==
  /\ hpc[h] = "keepalive"
  /\ \/ /\ ~broken[h]
        /\ hpc' = [hpc EXCEPT ![h] = "loop"]
        /\ UNCHANGED broken
     \/ /\ broken' = [broken EXCEPT ![h] = TRUE]
        /\ hpc' = [hpc EXCEPT ![h] = "remove"]
  /\ UNCHANGED << clients, lock, expected, first, last_seq >>
  /\ ServeFrame

NextWrites ==
  \/ StartStreamer
  \/ RunCheck
  \/ RunStats
  \/ RunHealth
  \/ RunVelocity
  \/ RunHeartbeat
  \/ RunSleep
  \/ BcAcquire
  \/ BcWriteBegin
  \/ BcWriteEnd
  \/ BcFinish
  \/ \E h \in DOMAIN hpc : ServeInitial(h)
  \/ \E h \in DOMAIN hpc : ServeAdd(h)
  \/ \E h \in DOMAIN hpc : KeepaliveBegin(h)
  \/ \E h \in DOMAIN hpc : KeepaliveEnd(h)
  \/ \E h \in DOMAIN hpc : ServeRemove(h)

SpecWrites == InitStream /\ [][NextWrites]_vars

\* C31 (as claimed): the thread of the poll loop, inside broadcast, and the
\* handler of a connection are never both inside a write to the sink of that
\* connection.
C31_OneWriterPerSink ==
  \A h \in DOMAIN hpc :
     ~(ppc = "bc_writing" /\ clients[bidx] = h /\ hpc[h] = "keepalive")

\* ------------------------------------- the server, every thread scheduled
\* the steps of the thread that ThreadingHTTPServer starts for connection h
HandlerThread(h) ==
  /\ h \in DOMAIN hpc
  /\ \/ ServeInitial(h)
     \/ ServeAdd(h)
     \/ ServeKeepalive(h)
     \/ ServeRemove(h)

\* handler h waits for the lock, in add_client or in remove_client
HandlerLocks(h) ==
  /\ h \in DOMAIN hpc
  /\ ServeAdd(h) \/ ServeRemove(h)

\* the server as main finds it and two connections to come, or the server
\* after HEALTH_EVERY - 1 ticks and one connection to come
InitFair ==
  /\ \/ FreshServer /\ SinksNew({1, 2})
     \/ WarmServer /\ SinksNew({1})
  /\ NoJob
  /\ NoBackup
  /\ NoTwoJobs
  /\ NoStart

\* every thread is scheduled: the poll thread and the handlers take their
\* next step when it stays possible, and a handler that waits for the lock
\* gets it, since the poll thread sleeps three seconds between two ticks
SpecFair ==
  /\ InitFair
  /\ [][NextStream]_vars
  /\ WF_vars(RunThread)
  /\ \A h \in {1, 2} : WF_vars(HandlerThread(h)) /\ SF_vars(HandlerLocks(h))

\* C34: a registered sink whose writes fail from now on is eventually out of
\* the registry, and its handler has returned.
C34_DeadSinkIsDropped ==
  \A h \in {1, 2} :
     (h \in SetOf(clients) /\ broken[h])
        ~> (h \in DOMAIN hpc /\ h \notin SetOf(clients) /\ hpc[h] = "done")

\* a sink that was registered, whose writes failed, is out of the registry
\* and its handler has returned
C34_Witness ==
  \E h \in DOMAIN hpc :
     /\ broken[h] /\ first[h] # "none"
     /\ hpc[h] = "done" /\ h \notin SetOf(clients)
     /\ last_seq[h] = 0 /\ bseq > 0

\* C35: the lock is held by broadcast alone between two steps, and the thread
\* that holds it is inside the loop of broadcast, which acquires nothing;
\* a held lock is released, and every thread that waits for the lock, in
\* add_client, in remove_client, in broadcast or in the check of the poll
\* loop, gets past its acquisition.
C35_LockNeverDeadlocks ==
  /\ [](lock \in {"free", "broadcast"})
  /\ [](lock = "broadcast" <=> ppc = "bc_write")
  /\ (lock = "broadcast") ~> (lock = "free")
  /\ (ppc = "bc") ~> (lock = "broadcast")
  /\ (ppc = "check") ~> (ppc \in {"stats", "sleep"})
  /\ \A h \in {1, 2} :
        /\ (h \in DOMAIN hpc /\ hpc[h] = "add")
              ~> (h \in SetOf(clients) /\ hpc[h] = "loop")
        /\ (h \in DOMAIN hpc /\ hpc[h] = "remove")
              ~> (h \in DOMAIN hpc /\ h \notin SetOf(clients)
                                     /\ hpc[h] = "done")

\* broadcast holds the lock while a handler waits for it
C35_Witness ==
  /\ lock = "broadcast" /\ bidx <= Len(clients)
  /\ \E h \in DOMAIN hpc : hpc[h] \in {"add", "remove"}

\* ------------------------------ the server over a database nobody writes to
\* _run, lines 286-288, when the databases hold what they held at the start:
\* _poll_stats succeeds and reads the same totals at every call, in the poll
\* loop and in the initial snapshot of a connection
RunStatsQuiet ==
  /\ RunStats
  /\ call'.data = StatsPayload(TRUE, 0, now)

NextQuiet ==
  \/ StartStreamer
  \/ RunCheck
  \/ RunStatsQuiet
  \/ RunHealth
  \/ RunVelocity
  \/ RunHeartbeat
  \/ RunSleep
  \/ BcAcquire
  \/ BcWrite
  \/ BcFinish
  \/ \E h \in DOMAIN hpc : ServeInitial(h)
  \/ \E h \in DOMAIN hpc : ServeAdd(h)
  \/ \E h \in DOMAIN hpc : ServeKeepalive(h)
  \/ \E h \in DOMAIN hpc : ServeRemove(h)

SpecQuiet == InitStream /\ [][NextQuiet]_vars

\* C36 (as claimed): while the data do not change, a subscriber that was
\* sent the initial snapshot is sent no 'stats' event by the poll loop.
C36_NoStatsAfterSnapshot ==
  \A h \in DOMAIN hpc :
     ~(/\ first[h] = "initial"
       /\ lock = "broadcast" /\ event = "stats"
       /\ bseq > 0 /\ last_seq[h] = bseq)

\* --------------------------- compute_streaks, two runs at once on one database
MaxFound == 2        \* streaks that the two runs find

TwoJobsFrame ==
  /\ UNCHANGED << tool_events, sessions, gap_threshold, min_duration, pc, rows,
                  idx, run_start, run_end, run_tools, streaks, k, txn, err,
                  runs, table_before, history >>
  /\ UNCHANGED << streamerVars, backupVars, startVars >>

\* lines 37-113: the run reads the events, finds the streaks and sorts them;
\* both runs read the same events and find the same streaks
TjCompute(j) ==
  /\ jpc[j] = "start"
  /\ jpc' = [jpc EXCEPT ![j] = "delete"]
  /\ UNCHANGED << autonomy_streaks, jtxn, jk, wlock, seen >>
  /\ TwoJobsFrame

\* a DELETE that is committed at once
TjDeleteAutocommit(j) ==
  /\ jpc[j] = "delete"
  /\ wlock = 0
  /\ wlock' = j
  /\ autonomy_streaks' = << >>
  /\ jtxn' = [jtxn EXCEPT ![j] = << >>]
  /\ jk' = [jk EXCEPT ![j] = 1]
  /\ jpc' = [jpc EXCEPT ![j] = "insert"]
  /\ UNCHANGED seen
  /\ TwoJobsFrame

\* line 116: sqlite3 opens a transaction before the DELETE, and the DELETE
\* takes the write lock of the database; while the other run holds it the
\* statement waits (timeout=10)
TjDelete(j) ==
  /\ jpc[j] = "delete"
  /\ wlock = 0
  /\ wlock' = j
  /\ jtxn' = [jtxn EXCEPT ![j] = DeleteAll(autonomy_streaks)]
  /\ jk' = [jk EXCEPT ![j] = 1]
  /\ jpc' = [jpc EXCEPT ![j] = "insert"]
  /\ UNCHANGED << autonomy_streaks, seen >>
  /\ TwoJobsFrame

\* line 116: the other run holds the write lock for more than ten seconds;
\* the DELETE raises "database is locked", the run ends and its connection
\* is dropped
TjDeleteLocked(j) ==
  /\ jpc[j] = "delete"
  /\ wlock \notin {0, j}
  /\ jpc' = [jpc EXCEPT ![j] = "failed"]
  /\ UNCHANGED << autonomy_streaks, jtxn, jk, wlock, seen >>
  /\ TwoJobsFrame

\* lines 117-133, one INSERT
TjInsert(j) ==
  /\ jpc[j] = "insert"
  /\ jk[j] <= Len(streaks)
  /\ jtxn' = [jtxn EXCEPT ![j] = Append(@, RowOf(streaks[jk[j]]))]
  /\ jk' = [jk EXCEPT ![j] = @ + 1]
  /\ UNCHANGED << autonomy_streaks, jpc, wlock, seen >>
  /\ TwoJobsFrame

\* line 134: conn.commit() publishes the transaction and releases the lock
TjCommit(j) ==
  /\ jpc[j] = "insert"
  /\ jk[j] > Len(streaks)
  /\ wlock = j
  /\ autonomy_streaks' = jtxn[j]
  /\ jtxn' = [jtxn EXCEPT ![j] = << >>]
  /\ wlock' = 0
  /\ jpc' = [jpc EXCEPT ![j] = "done"]
  /\ UNCHANGED << jk, seen >>
  /\ TwoJobsFrame

\* another connection (the API server) selects from autonomy_streaks: it is
\* given the committed table
Reader ==
  /\ seen # autonomy_streaks
  /\ seen' = autonomy_streaks
  /\ UNCHANGED << autonomy_streaks, jpc, jtxn, jk, wlock >>
  /\ TwoJobsFrame

InitTwoJobs ==
  /\ tool_events = [t \in {} |-> 0]
  /\ sessions = << >>
  /\ autonomy_streaks \in OldTables
  /\ gap_threshold = 0
  /\ min_duration = 0
  /\ pc = "idle"
  /\ rows = << >> /\ idx = 0
  /\ run_start = NoneTs /\ run_end = NoneTs /\ run_tools = 0
  /\ \E n \in 0..MaxFound : streaks = SortByDuration(FoundStreaks(n, "rising"))
  /\ k = 0 /\ txn = << >> /\ err = "none"
  /\ runs = 0
  /\ table_before = autonomy_streaks
  /\ history = << >>
  /\ StreamerNew /\ SinksNew({}) /\ ppc = "off"
  /\ NoBackup
  /\ NoStart
  /\ jpc = [j \in {1, 2} |-> "start"]
  /\ jtxn = [j \in {1, 2} |-> << >>]
  /\ jk = [j \in {1, 2} |-> 0]
  /\ wlock = 0
  /\ seen = autonomy_streaks

NextTwoJobs ==
  \/ \E j \in {1, 2} : TjCompute(j)
  \/ \E j \in {1, 2} : TjDelete(j)
  \/ \E j \in {1, 2} : TjDeleteLocked(j)
  \/ \E j \in {1, 2} : TjInsert(j)
  \/ \E j \in {1, 2} : TjCommit(j)
  \/ Reader

SpecTwoJobs == InitTwoJobs /\ [][NextTwoJobs]_vars

\* C38: with two runs at once, the committed table, which is what another
\* connection reads, is at every moment the table of before the runs or the
\* rows of the streaks computed, each once and in order, never empty in
\* between, partial, doubled or mixed; when both runs are over at least one
\* has committed and the table holds the rows of the streaks computed.
C38_ConcurrentRunsLeaveOneCopy ==
  /\ autonomy_streaks \in {table_before, RowsOf(streaks)}
  /\ seen \in {table_before, RowsOf(streaks)}
  /\ (\A j \in DOMAIN jpc : jpc[j] \in {"done", "failed"}) =>
        /\ \E j \in DOMAIN jpc : jpc[j] = "done"
        /\ autonomy_streaks = RowsOf(streaks)
        /\ wlock = 0

\* both runs are over, one of them with a lock error, where the table held
\* an older row and the runs found streaks
C38_Witness ==
  /\ jpc = << "done", "failed" >>
  /\ table_before # << >> /\ Len(streaks) = MaxFound
  /\ autonomy_streaks = RowsOf(streaks)
  /\ seen = table_before

\* ------------------------------------ DataStreamer.start, called more than once
NumCallers == 3      \* calls of start()
MaxStops == 1        \* assignments running = False

StartFrame ==
  /\ UNCHANGED << digestVars, registryVars >>
  /\ UNCHANGED << hpc, first, has_clients, health_counter, now, tick, active >>
  /\ UNCHANGED << jobVars, backupVars, twoJobVars >>

\* the threads that have not left _run
LiveThreads == { t \in DOMAIN tpc : tpc[t] # "ended" }

\* start, lines 269-270: if self.running: return
StartCheck(s) ==
  /\ spc[s] = "called"
  /\ spc' = [spc EXCEPT ![s] = IF running THEN "returned" ELSE "set"]
  /\ UNCHANGED << running, tpc, stops >>
  /\ StartFrame

\* start, line 271: self.running = True
StartSet(s) ==
  /\ spc[s] = "set"
  /\ running' = TRUE
  /\ spc' = [spc EXCEPT ![s] = "spawn"]
  /\ UNCHANGED << tpc, stops >>
  /\ StartFrame

\* start, lines 272-273: the thread of _run is created and started
StartSpawn(s) ==
  /\ spc[s] = "spawn"
  /\ tpc' = Append(tpc, "while")
  /\ spc' = [spc EXCEPT ![s] = "returned"]
  /\ UNCHANGED << running, stops >>
  /\ StartFrame

\* _run, line 279: while self.running
ThreadWhile(t) ==
  /\ tpc[t] = "while"
  /\ tpc' = [tpc EXCEPT ![t] = IF running THEN "tick" ELSE "ended"]
  /\ UNCHANGED << running, spc, stops >>
  /\ StartFrame

\* _run, lines 280-306: the tick and the sleep of three seconds
ThreadTick(t) ==
  /\ tpc[t] = "tick"
  /\ tpc' = [tpc EXCEPT ![t] = "while"]
  /\ UNCHANGED << running, spc, stops >>
  /\ StartFrame

\* main, line 1336: streamer.running = False
Stop ==
  /\ stops < MaxStops
  /\ running
  /\ running' = FALSE
  /\ stops' = stops + 1
  /\ UNCHANGED << spc, tpc >>
  /\ StartFrame

InitStart ==
  /\ FreshServer
  /\ SinksNew({})
  /\ NoJob
  /\ NoBackup
  /\ NoTwoJobs
  /\ spc = [s \in 1..NumCallers |-> "called"]
  /\ tpc = << >>
  /\ stops = 0

NextStart ==
  \/ \E s \in DOMAIN spc : StartCheck(s)
  \/ \E s \in DOMAIN spc : StartSet(s)
  \/ \E s \in DOMAIN spc : StartSpawn(s)
  \/ \E t \in DOMAIN tpc : ThreadWhile(t)
  \/ \E t \in DOMAIN tpc : ThreadTick(t)
  \/ Stop

SpecStart == InitStart /\ [][NextStart]_vars

\* C39 (as claimed): at no moment have two threads been started by start()
\* that have not left _run.
C39_AtMostOnePollThread == Cardinality(LiveThreads) <= 1

====
